---- MODULE Spec2Model ----
(***************************************************************************)
(* git-pr: the stack landing orchestrator of land.go.                      *)
(*                                                                         *)
(* The model follows one invocation of landStack: the clean-tree check,    *)
(* the pre-flight comparison of the lead commit with its remote branch,    *)
(* the construction of the landing plan, and then either the unattended    *)
(* loop of landStack or the dashboard loop of landStackInteractive with    *)
(* landStackFromDashboard.  Every external call (git, gh, the operator's   *)
(* answer at a prompt) is a step whose outcome is chosen from the outcomes *)
(* the call can have.  The variables of the second group record what the   *)
(* run asked of the forge and of the VCS; the program does not read them.  *)
(* Locals of a function or of a loop are put back to their initial value   *)
(* when the function returns or the loop ends.                             *)
(***************************************************************************)
EXTENDS Naturals, Integers, Sequences, FiniteSets, TLC

\* ---- bounds of the model ----
MaxPRs == 2            \* longest stack explored
Timeout == 1           \* cfg.timeout, in poll intervals
MaxChecks == 2         \* longest required-check list returned by a poll
MaxNodes == 2          \* most raw check nodes in the status rollup of a PR
MaxReviews == 2        \* most reviews in the response for a PR
MaxPieces == 5         \* most pieces a PR body is put together from

\* ---- program constants ----
MaxUnknownRetries == 3 \* land.go:167, retry < 3

\* mergeStateStatus values, one for each branch the code takes on them
\* (land.go:161-187, 1478-1480): BLOCKED stands for BLOCKED, UNSTABLE and
\* BEHIND, DIRTY for a status that falls to the default branch
MergeStates == {"CONFLICTING", "UNKNOWN", "BLOCKED", "MERGEABLE", "CLEAN", "DIRTY"}

\* buckets reported by `gh pr checks` (land.go:1076-1085)
Buckets == {"pass", "skipping", "fail", "cancel", "pending"}

\* PR states (land.go:63)
PRStates == {"OPEN", "MERGED", "CLOSED"}

VARIABLES
  cfg,          \* landConfig; cfg.autoMode is toggled by the fallback
  n,            \* len(prs), the length of the landing plan
  prs,          \* the plan's status snapshot: prs[k].State, prs[k].MergeStatus
  pc,           \* position of the run
  i,            \* loop index of the landing loop, 1-based
  cur,          \* the loop's copy `pr` of the current entry
  mergeStatus,  \* local mergeStatus of landStack
  retry,        \* local retry of landStack
  elapsed,      \* time.Since(startTime) of the current wait, in poll intervals
  result,       \* how the run ended: "" while running
  errURL,       \* index of the PR whose URL the returned error names, 0 if none
  rk,           \* loop index of rebaseRemainingPRs
  \* ---- record of the run, never read by the program ----
  startAuto,    \* cfg.autoMode when the run started
  calls,        \* kinds of external calls made while no plan is built yet
  muts,         \* merge, base-update and delete requests so far, in order;
                \* a merge request carries the answer of the forge
  pushes,       \* PRs whose branch a push was requested for in the current
                \* phase; 0 stands for the push of the whole stack by git-pr
  turnLive,     \* live mergeStateStatus of the current PR when its turn came
  gate,         \* how the current PR passed the check gate
  confirmed,    \* how the current PR's merge was confirmed complete
  fellBack,     \* the current PR's merge went through the not-enabled fallback
  postBase,     \* whether the next PR conflicts after the base update
  conflicted,   \* the PR a base update left conflicting and that was not
                \* rebased since, 0 if none
  report,       \* what the steps after the merge of the current PR reported:
                \* the failure of the base update, the outcome of the deletion
  landedCount,  \* the count of the final "landed N PRs" line, -1 if none
  envOK,        \* every call so far succeeded with a clean or mergeable status
  dirty,        \* git status reported uncommitted changes
  branch,       \* the branch the working directory is checked out on:
                \* "work" for the branch the run was started on, "trunk",
                \* or HeadBranch(k) for the head branch of PR k
  rebasing,     \* a rebase was started and neither finished nor aborted
  headRefOid,   \* the head commit the forge reported for the current PR when
                \* its turn to merge came: "plan" for the SHA the plan holds,
                \* "remote" for another one, "" before
  action        \* the case of the dashboard's switch the operator's last
                \* answer fell into: "y", "r", "q" or "other"; "" before

\* the functions of land.go that are checked on their own: each variable is
\* one activation, with its arguments, its position and what it returned
VARIABLES
  refresh       \* updateAllPRStatus: the dashboard state the call works on
                \* and the queries it issued
  ,rollup       \* updatePRStatusBatch, the checks of one PR: the raw nodes
                \* of the response and what the entry stores for them
  ,review       \* updatePRStatusBatch, the reviews of one PR: the review
                \* states and the decision of the response, and the summary
  ,cleanup      \* cleanupPRBodyForMerge: the PR body, the result, and the
                \* result of cleaning the result again
  ,parse        \* parseLogs and getStackedCommits: the log text, how it was
                \* composed, and the commits returned
  ,plan         \* landStack and main, from the stack to the plan: the log,
                \* the commits, the plan entries and the pushed commits
  ,msg          \* a Commit whose trailers are set and read, and its
                \* message as it is written and parsed back

fvars == <<refresh, rollup, review, cleanup, parse, plan, msg>>

vars == <<cfg, n, prs, pc, i, cur, mergeStatus, retry, elapsed, result, errURL, rk,
          startAuto, calls, muts, pushes, turnLive, gate, confirmed,
          fellBack, postBase, conflicted, report, landedCount, envOK, dirty,
          branch, rebasing, headRefOid, action>>

\* ---- helpers ----
EmptyEntry == [State |-> "", MergeStatus |-> ""]
NoPR == [State |-> "", MergeStatus |-> "", HeadSHA |-> ""]

\* a base-update or delete request for PR k, with how the merge of the
\* current PR was confirmed when the request was made
Mut(op, k) ==
  [op |-> op, pr |-> k, auto |-> FALSE, sha |-> "", ok |-> TRUE, after |-> confirmed]
\* a merge request for PR k: with or without --auto, the head SHA it is
\* guarded with, and whether the forge accepted it
MergeMut(k, auto, sha, ok) ==
  [op |-> "merge", pr |-> k, auto |-> auto, sha |-> sha, ok |-> ok, after |-> ""]

\* land.go:131: the name of the head branch of the k-th PR of the plan
HeadBranch(k) == ToString(k)

\* a function that is not running
NotCalled == [pc |-> "idle"]

NoReport == [outcome |-> "", says |-> "", base |-> ""]

\* the run returns (or panics, or exits): pc = "done"
Finish(res, url) ==
  /\ pc' = "done"
  /\ result' = res
  /\ errURL' = url

InitLand ==
  /\ cfg \in [dryRun : BOOLEAN, interactive : BOOLEAN, requireChecks : BOOLEAN,
              autoMode : BOOLEAN, deleteBranch : BOOLEAN]
  /\ n = 0
  /\ prs = <<>>
  /\ pc = "start"
  /\ i = 0
  /\ cur = NoPR
  /\ mergeStatus = ""
  /\ retry = 0
  /\ elapsed = 0
  /\ result = ""
  /\ errURL = 0
  /\ rk = 0
  /\ startAuto = cfg.autoMode
  /\ calls = {}
  /\ muts = <<>>
  /\ pushes = {}
  /\ turnLive = ""
  /\ gate = ""
  /\ confirmed = ""
  /\ fellBack = FALSE
  /\ postBase = ""
  /\ conflicted = 0
  /\ report = NoReport
  /\ landedCount = -1
  /\ envOK = TRUE
  /\ dirty = FALSE
  /\ branch = "work"
  /\ rebasing = FALSE
  /\ headRefOid = ""
  /\ action = ""

Init ==
  /\ InitLand
  /\ refresh = NotCalled
  /\ parse = NotCalled
  /\ plan = NotCalled
  /\ msg = NotCalled
  /\ rollup = NotCalled
  /\ review = NotCalled
  /\ cleanup = NotCalled

\* ---- landStack, before the loop ----

\* land.go:84-86: the clean-tree check, the first statement of landStack
ValidateClean_NoCheck(clean) ==
  /\ pc' = "getStack"
  /\ UNCHANGED <<result, errURL>>

ValidateClean(clean) ==
  IF clean
    THEN /\ pc' = "getStack"
         /\ UNCHANGED <<result, errURL>>
    ELSE Finish("dirty", 0)

\* land.go:82-86 with validateGitStatusClean (main.go:425-428): git status
\* under must
LandStackStart ==
  /\ pc = "start"
  /\ calls' = calls \cup {"git status"}
  /\ \E outcome \in {"clean", "dirty", "fail"} :
       /\ envOK' = (envOK /\ outcome = "clean")
       /\ dirty' = (outcome = "dirty")
       /\ IF outcome = "fail"
            THEN Finish("panic", 0)
            ELSE ValidateClean(outcome = "clean")
  /\ UNCHANGED <<cfg, n, prs, i, cur, mergeStatus, retry, elapsed, rk>>
  /\ UNCHANGED <<fvars, branch, rebasing, headRefOid, action, startAuto, muts, pushes, turnLive, gate, confirmed,
                 fellBack, postBase, conflicted, report, landedCount>>

\* land.go:89-96: read the stack; an empty stack ends the run with nil
GetStack ==
  /\ pc = "getStack"
  /\ calls' = calls \cup {"git log"}
  /\ \E outcome \in {"ok", "fail"} :
       IF outcome = "fail"
         THEN /\ Finish("panic", 0)
              /\ envOK' = FALSE
              /\ UNCHANGED <<n, prs>>
         ELSE \E len \in 0..MaxPRs :
                /\ n' = len
                /\ prs' = [k \in 1..len |-> EmptyEntry]
                /\ envOK' = envOK
                /\ IF len = 0
                     THEN Finish("ok_nothing", 0)
                     ELSE /\ pc' = "preflight"
                          /\ UNCHANGED <<result, errURL>>
  /\ UNCHANGED <<cfg, i, cur, mergeStatus, retry, elapsed, rk>>
  /\ UNCHANGED <<fvars, branch, rebasing, headRefOid, action, startAuto, muts, pushes, turnLive, gate, confirmed,
                 fellBack, postBase, conflicted, report, landedCount, dirty>>

\* land.go:1690-1814 checkAndConfirmLocalChanges: what the pre-flight finds
\*   "nopr"    no PR resolvable for the lead commit (1693-1727)
\*   "unknown" the commits of the remote branch could not be listed (1754-1765)
\*   "match"   first local and first remote commit agree (1809-1811)
\*   "differ"  they differ (1773-1808)
\* answer is the operator's reply at the prompt, pushOK the result of running
\* git-pr to push.  The function never reads the landConfig.
Preflight ==
  /\ pc = "preflight"
  /\ \E found \in {"nopr", "unknown", "match", "differ"}, answer \in BOOLEAN,
        pushOK \in BOOLEAN :
       /\ calls' = calls \cup {"gh"}
                     \cup (IF found = "nopr" THEN {} ELSE {"git"})
                     \cup (IF found \in {"nopr", "differ"} THEN {"prompt"} ELSE {})
       /\ pushes' = IF found \in {"nopr", "differ"} /\ answer
                      THEN pushes \cup {0}
                      ELSE pushes
       /\ envOK' = (envOK /\ (found = "match" \/ (found = "differ" /\ answer /\ pushOK)))
       /\ CASE found \in {"unknown", "match"} ->
                 /\ pc' = "buildPlan"
                 /\ UNCHANGED <<result, errURL>>
            [] found \in {"nopr", "differ"} /\ ~answer -> Finish("cancelled", 0)
            [] found \in {"nopr", "differ"} /\ answer /\ ~pushOK -> Finish("push_failed", 0)
            [] found = "nopr" /\ answer /\ pushOK -> Finish("exit0", 0)
            [] found = "differ" /\ answer /\ pushOK ->
                 /\ pc' = "buildPlan"
                 /\ UNCHANGED <<result, errURL>>
  /\ UNCHANGED <<cfg, n, prs, i, cur, mergeStatus, retry, elapsed, rk>>
  /\ UNCHANGED <<fvars, branch, rebasing, headRefOid, action, startAuto, muts, turnLive, gate, confirmed, fellBack,
                 postBase, conflicted, report, landedCount, dirty>>

\* land.go:108-140: build the plan, then hand over to the dashboard or enter
\* the loop
BuildPlan ==
  /\ pc = "buildPlan"
  /\ \E outcome \in {"ok", "nopr", "fail"} :
       /\ envOK' = (envOK /\ outcome = "ok")
       /\ CASE outcome = "nopr" ->
                 Finish("no_pr_found", 0) /\ i' = i /\ calls' = calls \cup {"gh"}
                   /\ pushes' = pushes
            [] outcome = "fail" ->
                 Finish("panic", 0) /\ i' = i /\ calls' = calls \cup {"gh"}
                   /\ pushes' = pushes
            [] outcome = "ok" ->
                 /\ pc' = IF cfg.interactive THEN "dashFetch" ELSE "loop"
                 /\ i' = 1
                 /\ calls' = {}
                 /\ pushes' = {}
                 /\ UNCHANGED <<result, errURL>>
  /\ UNCHANGED <<cfg, n, prs, cur, mergeStatus, retry, elapsed, rk>>
  /\ UNCHANGED <<fvars, branch, rebasing, headRefOid, action, startAuto, muts, turnLive, gate, confirmed,
                 fellBack, postBase, conflicted, report, landedCount, dirty>>

\* ---- the unattended loop of landStack ----

\* land.go:189-199 and 880-887: `if cfg.requireChecks { waitForChecks }`
ToChecks ==
  IF cfg.requireChecks
    THEN pc' = "waitForChecks" /\ gate' = ""
    ELSE pc' = "detect" /\ gate' = "not required"

\* land.go:143-151: loop head; the dry run prints and continues
LandLoopHead ==
  /\ pc = "loop"
  /\ headRefOid' = ""
  /\ ~cfg.interactive
  /\ IF i > n
       THEN /\ Finish(IF cfg.dryRun THEN "ok_dryrun" ELSE "ok", 0)
            /\ landedCount' = IF cfg.dryRun THEN landedCount ELSE n
            /\ UNCHANGED <<i, cur, pushes, mergeStatus>>
       ELSE /\ cur' = [State |-> prs[i].State, MergeStatus |-> prs[i].MergeStatus,
                       HeadSHA |-> "plan"]
            /\ mergeStatus' = ""
            /\ pushes' = {}
            /\ landedCount' = landedCount
            /\ UNCHANGED <<result, errURL>>
            /\ IF cfg.dryRun
                 THEN pc' = "loop" /\ i' = i + 1
                 ELSE pc' = "checkMergeability" /\ i' = i
  /\ report' = NoReport
  /\ UNCHANGED <<cfg, n, prs, retry, elapsed, rk>>
  /\ UNCHANGED <<fvars, branch, rebasing, action, startAuto, calls, muts, turnLive, gate, confirmed, fellBack,
                 postBase, conflicted, envOK, dirty>>

\* land.go:161-187: the switch on the status of a query, for a status that
\* ends the retries
MergeabilitySwitch(s) ==
  IF s = "CONFLICTING"
    THEN /\ Finish("conflict", i)
         /\ UNCHANGED gate
    ELSE /\ ToChecks
         /\ UNCHANGED <<result, errURL>>

\* what the forge can report for the PR whose turn it is: after a base update
\* that left it conflicting, and until the remaining PRs are rebased, a
\* conflict status, or UNKNOWN while the forge recomputes
ConflictStates == {"CONFLICTING", "DIRTY"}
LiveStates == IF conflicted = i THEN ConflictStates \cup {"UNKNOWN"} ELSE MergeStates

\* land.go:153-187 with checkPRMergeability (1409-1448): the first query
LandCheckMergeability ==
  /\ pc = "checkMergeability"
  /\ ~cfg.interactive
  /\ calls' = calls \cup {"gh"}
  /\ \E ok \in BOOLEAN, s \in LiveStates :
       IF ~ok
         THEN /\ Finish("mergeability_failed", 0)
              /\ envOK' = FALSE
              /\ UNCHANGED <<mergeStatus, turnLive, gate>>
         ELSE /\ mergeStatus' = s
              /\ turnLive' = s
              /\ envOK' = (envOK /\ s \in {"CLEAN", "MERGEABLE"})
              /\ IF s = "UNKNOWN"
                   THEN /\ pc' = "retryUnknown"
                        /\ UNCHANGED <<result, errURL, gate>>
                   ELSE MergeabilitySwitch(s)
  /\ UNCHANGED <<cfg, n, prs, i, cur, retry, elapsed, rk>>
  /\ UNCHANGED <<fvars, branch, rebasing, headRefOid, action, startAuto, muts, pushes, confirmed, fellBack, postBase,
                 conflicted, report, landedCount, dirty>>

\* land.go:167: the condition of the retry loop
RetryAgain_OneMore(r, s) == r <= MaxUnknownRetries /\ s = "UNKNOWN"

RetryAgain(r, s) == r < MaxUnknownRetries /\ s = "UNKNOWN"

\* land.go:167-177: one iteration of the retry loop, the loop condition for
\* the next iteration, and the check after the loop
LandRetryUnknown ==
  /\ pc = "retryUnknown"
  /\ ~cfg.interactive
  /\ calls' = calls \cup {"gh"}
  /\ envOK' = FALSE
  /\ \E ok \in BOOLEAN, s \in LiveStates :
       IF ~ok
         THEN /\ Finish("mergeability_failed", 0)
              /\ retry' = 0
              /\ UNCHANGED <<mergeStatus, turnLive, gate>>
         ELSE /\ mergeStatus' = s
              /\ turnLive' = s
              /\ IF RetryAgain(retry + 1, s)
                   THEN /\ retry' = retry + 1
                        /\ UNCHANGED <<pc, result, errURL, gate>>
                   ELSE /\ retry' = 0
                        /\ MergeabilitySwitch(s)
  /\ UNCHANGED <<cfg, n, prs, i, cur, elapsed, rk>>
  /\ UNCHANGED <<fvars, branch, rebasing, headRefOid, action, startAuto, muts, pushes, confirmed, fellBack, postBase,
                 conflicted, report, landedCount, dirty>>

\* ---- waitForChecks, detectAutoGeneratedCommits, mergePR, waitForMerge ----

\* the answers a poll of `gh pr checks --required` can give: the buckets of
\* the required checks.  The loop of land.go:1075-1086 classifies each check
\* on its own, so one order of every combination of buckets is enough.
BucketRank(b) ==
  CASE b = "pass" -> 1 [] b = "skipping" -> 2 [] b = "fail" -> 3
    [] b = "cancel" -> 4 [] OTHER -> 5

CheckLists ==
  { checks \in UNION {[1..len -> Buckets] : len \in 0..MaxChecks} :
      \A a, b \in 1..Len(checks) :
        a < b => BucketRank(checks[a]) <= BucketRank(checks[b]) }

\* land.go:1071-1086: the classification of one poll
failedChecks(checks) == {c \in 1..Len(checks) : checks[c] \in {"fail", "cancel"}}
pendingChecks(checks) == {c \in 1..Len(checks) : checks[c] = "pending"}
allPassed(checks) == failedChecks(checks) = {} /\ pendingChecks(checks) = {}

\* land.go:1088-1102: the verdict on one poll
ChecksVerdict(checks) ==
  CASE failedChecks(checks) # {} -> "failed"
    [] allPassed(checks) -> "passed"
    [] OTHER -> "wait"

\* land.go:1052 and 1342: the test at the head of an iteration of a polling
\* loop, `time.Since(startTime) > cfg.timeout`
TimedOut_Never(e) == FALSE

TimedOut(e) == e > Timeout

\* land.go:1046-1104 with the callers' handling (192-195, 882-885): one
\* iteration of the polling loop.  Any error of the query returns nil.
WaitForChecks ==
  /\ pc = "waitForChecks"
  /\ IF TimedOut(elapsed)
       THEN /\ Finish("checks_failed", 0)
            /\ elapsed' = 0
            /\ UNCHANGED <<gate, envOK>>
       ELSE \E answer \in {"no required checks", "query failed", "unparsable", "list"},
               checks \in CheckLists :
              /\ answer # "list" => checks = <<>>
              /\ envOK' = (envOK /\ answer = "list" /\ allPassed(checks))
              /\ CASE answer \in {"no required checks", "query failed"} ->
                        /\ pc' = "detect"
                        /\ gate' = answer
                        /\ elapsed' = 0
                        /\ UNCHANGED <<result, errURL>>
                   [] answer = "unparsable" ->
                        /\ Finish("checks_failed", 0)
                        /\ elapsed' = 0
                        /\ UNCHANGED gate
                   [] answer = "list" /\ ChecksVerdict(checks) = "failed" ->
                        /\ Finish("checks_failed", 0)
                        /\ elapsed' = 0
                        /\ gate' = "failed"
                   [] answer = "list" /\ ChecksVerdict(checks) = "passed" ->
                        /\ pc' = "detect"
                        /\ gate' = "all passed"
                        /\ elapsed' = 0
                        /\ UNCHANGED <<result, errURL>>
                   [] answer = "list" /\ ChecksVerdict(checks) = "wait" ->
                        /\ elapsed' = elapsed + 1
                        /\ UNCHANGED <<pc, result, errURL, gate>>
  /\ UNCHANGED <<cfg, n, prs, i, cur, mergeStatus, retry, rk>>
  /\ UNCHANGED <<fvars, branch, rebasing, headRefOid, action, startAuto, calls, muts, pushes, turnLive, confirmed, fellBack,
                 postBase, conflicted, report, landedCount, dirty>>

\* land.go:1107-1122 with 203-209 and 891-895: the head SHA is read under
\* must; hasAutoCommits is always false, so pr.HeadSHA is left as it is
DetectAutoGeneratedCommits ==
  /\ pc = "detect"
  /\ \E ok \in BOOLEAN, oid \in {"plan", "remote"} :
       /\ envOK' = (envOK /\ ok)
       /\ headRefOid' = IF ok THEN oid ELSE headRefOid
       /\ IF ok
            THEN pc' = "merge" /\ UNCHANGED <<result, errURL>>
            ELSE Finish("panic", 0)
  /\ UNCHANGED <<cfg, n, prs, i, cur, mergeStatus, retry, elapsed, rk>>
  /\ UNCHANGED <<fvars, branch, rebasing, action, startAuto, calls, muts, pushes, turnLive, gate, confirmed, fellBack,
                 postBase, conflicted, report, landedCount, dirty>>

\* land.go:232-243 and 915-926: after a merge request that succeeded.  The
\* merge is complete if the request that succeeded carried no --auto.
AfterMerge(c, sentAuto) ==
  /\ pc' = IF c.autoMode THEN "waitForMerge" ELSE "updateBase"
  /\ confirmed' = IF sentAuto THEN "" ELSE "immediate"
  /\ turnLive' = ""
  /\ gate' = ""
  /\ UNCHANGED <<result, errURL>>

\* land.go:1156-1159: whether mergePR appends --auto
MergeFlag_AlwaysAuto(c) == TRUE

MergeFlag(c) == c.autoMode

\* land.go:227-230 and 910-913: a merge request that failed
MergeFailed_Continue ==
  /\ pc' = "updateBase"
  /\ UNCHANGED <<result, errURL>>

MergeFailed == Finish("merge_failed", 0)

\* land.go:216-230 / 899-913 with mergePR (1125-1164): the first merge
\* request.  The fallback is taken on the text of the answer alone
\* (land.go:219), whatever cfg.autoMode is: gh also uses the mutation
\* enablePullRequestAutoMerge, and names it in its error, for a request
\* without --auto when the base branch requires a merge queue.
MergeFirst ==
  /\ pc = "merge"
  /\ \E fetched \in BOOLEAN, answer \in {"ok", "notEnabled", "fail"} :
       /\ envOK' = (envOK /\ fetched /\ answer = "ok")
       /\ IF ~fetched
            THEN /\ Finish("panic", 0)
                 /\ UNCHANGED <<cfg, muts, turnLive, gate, confirmed, fellBack>>
            ELSE /\ muts' = Append(muts, MergeMut(i, MergeFlag(cfg), cur.HeadSHA,
                                                  answer = "ok"))
                 /\ CASE answer = "ok" ->
                           /\ AfterMerge(cfg, MergeFlag(cfg))
                           /\ UNCHANGED <<cfg, fellBack>>
                      [] answer = "notEnabled" ->
                           /\ cfg' = [cfg EXCEPT !.autoMode = FALSE]
                           /\ pc' = "mergeRetry"
                           /\ fellBack' = TRUE
                           /\ UNCHANGED <<result, errURL, turnLive, gate, confirmed>>
                      [] answer = "fail" ->
                           /\ MergeFailed
                           /\ UNCHANGED <<cfg, turnLive, gate, confirmed, fellBack>>
  /\ UNCHANGED <<n, prs, i, cur, mergeStatus, retry, elapsed, rk>>
  /\ UNCHANGED <<fvars, branch, rebasing, headRefOid, action, startAuto, calls, pushes, postBase, conflicted, report,
                 landedCount, dirty>>

\* land.go:222-230 / 905-913: the retry without --auto; cfg.autoMode is set
\* back to true whatever the retry answered
MergeRetry ==
  /\ pc = "mergeRetry"
  /\ envOK' = FALSE
  /\ \E fetched \in BOOLEAN, answer \in {"ok", "fail"} :
       IF ~fetched
         THEN /\ Finish("panic", 0)
              /\ UNCHANGED <<cfg, muts, turnLive, gate, confirmed>>
         ELSE /\ muts' = Append(muts, MergeMut(i, MergeFlag(cfg), cur.HeadSHA,
                                               answer = "ok"))
              /\ cfg' = [cfg EXCEPT !.autoMode = TRUE]
              /\ IF answer = "ok"
                   THEN AfterMerge(cfg', MergeFlag(cfg))
                   ELSE /\ MergeFailed
                        /\ UNCHANGED <<turnLive, gate, confirmed>>
  /\ UNCHANGED <<n, prs, i, cur, mergeStatus, retry, elapsed, rk>>
  /\ UNCHANGED <<fvars, branch, rebasing, headRefOid, action, startAuto, calls, pushes, fellBack, postBase, conflicted, report,
                 landedCount, dirty>>

LandMerge == ~cfg.interactive /\ MergeFirst
LandMergeRetry == ~cfg.interactive /\ MergeRetry
DashMerge == cfg.interactive /\ MergeFirst
DashMergeRetry == cfg.interactive /\ MergeRetry

\* land.go:1366-1377: what waitForMerge does with the state it polled
MergePoll_ClosedIsMerged(state) ==
  CASE state \in {"MERGED", "CLOSED"} -> "merged"
    [] OTHER -> "wait"

MergePoll(state) ==
  CASE state = "MERGED" -> "merged"
    [] state = "CLOSED" -> "closed"
    [] OTHER -> "wait"

\* land.go:1329-1406 with the callers' handling (236-239, 919-922): one
\* iteration of the polling loop.  A PR merged by a request without --auto
\* is reported MERGED.
WaitForMerge ==
  /\ pc = "waitForMerge"
  /\ IF TimedOut(elapsed)
       THEN /\ Finish("merge_timeout", 0)
            /\ elapsed' = 0
            /\ UNCHANGED <<confirmed, envOK>>
       ELSE \E ok \in BOOLEAN, state \in PRStates :
              /\ confirmed = "immediate" => state = "MERGED"
              /\ envOK' = (envOK /\ ok /\ state = "MERGED")
              /\ CASE ~ok ->
                        /\ Finish("merge_poll_failed", 0)
                        /\ elapsed' = 0
                        /\ UNCHANGED confirmed
                   [] ok /\ MergePoll(state) = "merged" ->
                        /\ pc' = "updateBase"
                        /\ confirmed' = IF confirmed = "" /\ state = "MERGED"
                                          THEN "polled" ELSE confirmed
                        /\ elapsed' = 0
                        /\ UNCHANGED <<result, errURL>>
                   [] ok /\ MergePoll(state) = "closed" ->
                        /\ Finish("merge_closed", 0)
                        /\ elapsed' = 0
                        /\ UNCHANGED confirmed
                   [] ok /\ MergePoll(state) = "wait" ->
                        /\ elapsed' = elapsed + 1
                        /\ UNCHANGED <<pc, result, errURL, confirmed>>
  /\ UNCHANGED <<cfg, n, prs, i, cur, mergeStatus, retry, rk>>
  /\ UNCHANGED <<fvars, branch, rebasing, headRefOid, action, startAuto, calls, muts, pushes, turnLive, gate, fellBack,
                 postBase, conflicted, report, landedCount, dirty>>

\* ---- landStack after the merge ----

\* land.go:246 and 929: `i < len(prs)-1`, with the 1-based index of the model
HasNext_OffByOne(k, len) == k < len - 1

HasNext(k, len) == k < len

\* land.go:251 and 934: the error text of a failed base update mentions
\* "closed"
BaseFailureIsFatal_Never(answer) == FALSE

BaseFailureIsFatal(answer) == answer = "closed"

\* land.go:265 and 980: where the run goes after the base update
AfterBase == IF cfg.deleteBranch THEN "delete" ELSE "pull"

\* land.go:245-262 with updatePRBase (1451-1454): the base update of the
\* next PR.  A base update that succeeded can leave the next PR conflicting;
\* landStack does not look.
LandUpdateBase ==
  /\ pc = "updateBase"
  /\ ~cfg.interactive
  /\ fellBack' = FALSE
  /\ UNCHANGED confirmed
  /\ IF HasNext(i, n)
       THEN \E answer \in {"ok", "closed", "other"}, after \in {"clean", "conflict"} :
              /\ answer # "ok" => after = "clean"
              /\ muts' = Append(muts, [Mut("base", i + 1) EXCEPT !.ok = (answer = "ok")])
              /\ envOK' = (envOK /\ answer = "ok")
              /\ conflicted' = IF after = "conflict" THEN i + 1 ELSE conflicted
              /\ report' = [report EXCEPT !.base = IF answer = "ok" THEN "" ELSE answer]
              /\ IF answer # "ok" /\ BaseFailureIsFatal(answer)
                   THEN Finish("next_closed", 0)
                   ELSE pc' = AfterBase /\ UNCHANGED <<result, errURL>>
       ELSE /\ pc' = AfterBase
            /\ UNCHANGED <<muts, envOK, conflicted, report, result, errURL>>
  /\ UNCHANGED <<cfg, n, prs, i, cur, mergeStatus, retry, elapsed, rk>>
  /\ UNCHANGED <<fvars, branch, rebasing, headRefOid, action, startAuto, calls, pushes, turnLive, gate, postBase,
                 landedCount, dirty>>

\* what `git push --delete` can answer
DeleteOutcomes == {"ok", "remote ref does not exist", "rejected"}

\* land.go:267-272: what landStack prints for the outcome of the deletion
LandDeleteReport(outcome) ==
  IF outcome = "ok" THEN "deleted" ELSE "warning"

\* land.go:264-273 with deleteRemoteBranch (1457-1460)
LandDeleteBranch ==
  /\ pc = "delete"
  /\ ~cfg.interactive
  /\ \E outcome \in DeleteOutcomes :
       /\ muts' = Append(muts, Mut("delete", i))
       /\ report' = [report EXCEPT !.outcome = outcome,
                                    !.says = LandDeleteReport(outcome)]
       /\ envOK' = (envOK /\ outcome = "ok")
  /\ pc' = "pull"
  /\ UNCHANGED <<cfg, n, prs, i, cur, mergeStatus, retry, elapsed, result, errURL, rk>>
  /\ UNCHANGED <<fvars, branch, rebasing, headRefOid, action, startAuto, calls, pushes, turnLive, gate, confirmed, fellBack,
                 postBase, conflicted, landedCount, dirty>>

\* land.go:276-288: fetch, checkout and pull under must, then the next
\* iteration
LandPull ==
  /\ pc = "pull"
  /\ ~cfg.interactive
  /\ report' = [report EXCEPT !.outcome = "", !.says = ""]
  /\ confirmed' = ""
  /\ \E ok \in BOOLEAN, at \in {branch, "trunk"} :
       /\ envOK' = (envOK /\ ok)
       /\ branch' = IF ok THEN "trunk" ELSE at
       /\ IF ok
            THEN /\ pc' = "loop"
                 /\ i' = i + 1
                 /\ UNCHANGED <<result, errURL>>
            ELSE /\ Finish("panic", 0)
                 /\ i' = i
  /\ UNCHANGED <<cfg, n, prs, cur, mergeStatus, retry, elapsed, rk>>
  /\ UNCHANGED <<fvars, rebasing, headRefOid, action, startAuto, calls, muts, pushes, turnLive, gate, fellBack,
                 postBase, conflicted, landedCount, dirty>>

NextLand ==
  \/ LandStackStart
  \/ GetStack
  \/ Preflight
  \/ BuildPlan
  \/ LandLoopHead
  \/ LandCheckMergeability
  \/ LandRetryUnknown
  \/ WaitForChecks
  \/ DetectAutoGeneratedCommits
  \/ LandMerge
  \/ LandMergeRetry
  \/ WaitForMerge
  \/ LandUpdateBase
  \/ LandDeleteBranch
  \/ LandPull

\* ---- the dashboard: landStackInteractive ----

\* what a status query can return for one PR; the dashboard path reads
\* State only to tell MERGED from the rest and MergeStatus only to tell
\* CONFLICTING from the rest
FetchedStatus ==
  { [State |-> "OPEN", MergeStatus |-> "CLEAN"],
    [State |-> "OPEN", MergeStatus |-> "CONFLICTING"],
    [State |-> "MERGED", MergeStatus |-> "UNKNOWN"] }

\* land.go:472-494 with updatePRStatusBatch (497-695) and updatePRStatus
\* (698-765): every entry is either overwritten with what the forge returned
\* for it (by the batch query or, when the batch query failed, by its own
\* query) or left as it was (its key missing from the batch answer, or its
\* own query failed)
updateAllPRStatus(old) ==
  { new \in [1..Len(old) -> FetchedStatus \cup {EmptyEntry}] :
      \A k \in 1..Len(old) : new[k] \in FetchedStatus \/ new[k] = old[k] }

\* land.go:832-839
allPRsMerged_Never == FALSE

allPRsMerged == \A k \in 1..n : prs[k].State = "MERGED"

\* land.go:309-312: the initial fetch
DashFetch ==
  /\ pc = "dashFetch"
  /\ cfg.interactive
  /\ prs' \in updateAllPRStatus(prs)
  /\ envOK' = (envOK /\ \A k \in 1..n : prs'[k] \in FetchedStatus)
  /\ pc' = "dashShow"
  /\ UNCHANGED <<cfg, n, i, cur, mergeStatus, retry, elapsed, result, errURL, rk>>
  /\ UNCHANGED <<fvars, branch, rebasing, headRefOid, action, startAuto, calls, muts, pushes, turnLive, gate, confirmed, fellBack,
                 postBase, conflicted, report, landedCount, dirty>>

\* land.go:315-323: show the dashboard and return if everything is merged
DashShow ==
  /\ pc = "dashShow"
  /\ IF allPRsMerged
       THEN /\ Finish("ok", 0)
            /\ landedCount' = n
       ELSE /\ pc' = "dashPrompt"
            /\ UNCHANGED <<result, errURL, landedCount>>
  /\ UNCHANGED <<cfg, n, prs, i, cur, mergeStatus, retry, elapsed, rk>>
  /\ UNCHANGED <<fvars, branch, rebasing, headRefOid, action, startAuto, calls, muts, pushes, turnLive, gate, confirmed, fellBack,
                 postBase, conflicted, report, envOK, dirty>>

\* land.go:332-334: the operator answers y or yes
DashLand ==
  /\ pc = "dashPrompt"
  /\ action' = "y"
  /\ pc' = "dashLoop"
  /\ i' = 1
  /\ UNCHANGED <<cfg, n, prs, cur, mergeStatus, retry, elapsed, result, errURL, rk>>
  /\ UNCHANGED <<fvars, branch, rebasing, headRefOid, startAuto, calls, muts, pushes, turnLive, gate, confirmed, fellBack,
                 postBase, conflicted, report, landedCount, envOK, dirty>>

\* land.go:336-341: the operator answers r or refresh
DashRefresh ==
  /\ pc = "dashPrompt"
  /\ action' = "r"
  /\ prs' \in updateAllPRStatus(prs)
  /\ envOK' = (envOK /\ \A k \in 1..n : prs'[k] \in FetchedStatus)
  /\ pc' = "dashShow"
  /\ UNCHANGED <<cfg, n, i, cur, mergeStatus, retry, elapsed, result, errURL, rk>>
  /\ UNCHANGED <<fvars, branch, rebasing, headRefOid, startAuto, calls, muts, pushes, turnLive, gate, confirmed, fellBack,
                 postBase, conflicted, report, landedCount, dirty>>

\* land.go:343-346: the operator answers q or quit
DashQuit ==
  /\ pc = "dashPrompt"
  /\ action' = "q"
  /\ Finish("cancelled", 0)
  /\ envOK' = FALSE
  /\ UNCHANGED <<cfg, n, prs, i, cur, mergeStatus, retry, elapsed, rk>>
  /\ UNCHANGED <<fvars, branch, rebasing, headRefOid, startAuto, calls, muts, pushes, turnLive, gate, confirmed, fellBack,
                 postBase, conflicted, report, landedCount, dirty>>

\* land.go:348-349: any other answer; the loop shows the dashboard again
DashUnknown_Refetches ==
  /\ pc = "dashPrompt"
  /\ action' = "other"
  /\ pc' = "dashShow"
  /\ prs' \in updateAllPRStatus(prs)
  /\ envOK' = FALSE
  /\ UNCHANGED <<cfg, n, i, cur, mergeStatus, retry, elapsed, result, errURL, rk>>
  /\ UNCHANGED <<fvars, branch, rebasing, headRefOid, startAuto, calls, muts, pushes, turnLive, gate, confirmed, fellBack,
                 postBase, conflicted, report, landedCount, dirty>>

DashUnknown ==
  /\ pc = "dashPrompt"
  /\ action' = "other"
  /\ pc' = "dashShow"
  /\ envOK' = FALSE
  /\ UNCHANGED <<cfg, n, prs, i, cur, mergeStatus, retry, elapsed, result, errURL, rk>>
  /\ UNCHANGED <<fvars, branch, rebasing, headRefOid, startAuto, calls, muts, pushes, turnLive, gate, confirmed, fellBack,
                 postBase, conflicted, report, landedCount, dirty>>

\* ---- the dashboard: landStackFromDashboard ----

\* land.go:848: the test that skips an entry
AlreadyMerged(entry) == entry.State = "MERGED"

\* land.go:846-854 and 1041-1042: loop head; an entry whose snapshot says
\* MERGED is skipped
DashLoopHead ==
  /\ pc = "dashLoop"
  /\ headRefOid' = ""
  /\ cfg.interactive
  /\ IF i > n
       THEN /\ Finish("ok", 0)
            /\ landedCount' = n
            /\ UNCHANGED <<i, cur, pushes>>
       ELSE /\ cur' = [State |-> prs[i].State, MergeStatus |-> prs[i].MergeStatus,
                       HeadSHA |-> "plan"]
            /\ pushes' = {}
            /\ landedCount' = landedCount
            /\ UNCHANGED <<result, errURL>>
            /\ IF AlreadyMerged(prs[i])
                 THEN pc' = "dashLoop" /\ i' = i + 1
                 ELSE pc' = "dashVerify" /\ i' = i
  /\ report' = NoReport
  /\ UNCHANGED <<cfg, n, prs, mergeStatus, retry, elapsed, rk>>
  /\ UNCHANGED <<fvars, branch, rebasing, action, startAuto, calls, muts, turnLive, gate, confirmed, fellBack,
                 postBase, conflicted, envOK, dirty>>

\* the status the forge can hold for the PR whose turn it is, as far as the
\* dashboard path can tell statuses apart
DashLive ==
  IF conflicted = i THEN ConflictStates ELSE {"CONFLICTING", "CLEAN"}

\* land.go:857-871 with verifyAndSyncCommit (1490-1687) and updatePRStatus:
\*   "error"    a query or a VCS command of the sync failed, or the operator
\*              declined the sync (1494-1502, 1614-1657)
\*   "pushFail" git-pr was run to push and failed (1663-1670)
\*   "noLocal"  nothing to compare with (1512-1550)
\*   "inSync"   the local commit is on the PR; HeadSHA follows the remote
\*              head if that could be read and differs (1569-1584)
\*   "synced"   rebased and pushed by git-pr; HeadSHA follows the forge if it
\*              answered (1673-1683); then the entry is refreshed (864-870)
\* Whether the forge holds the PR as CONFLICTING at this moment is recorded
\* in turnLive; the program sees it only through the refresh after a sync.
DashVerify ==
  /\ pc = "dashVerify"
  /\ \E outcome \in {"error", "pushFail", "noLocal", "inSync", "synced"},
        head \in {"", "plan", "remote"},
        refreshed \in FetchedStatus \cup {EmptyEntry},
        live \in DashLive,
        at \in {branch, "trunk"} :
       /\ branch' = IF outcome = "error" THEN at ELSE branch
       /\ outcome \in {"error", "pushFail", "noLocal"} => head = ""
       /\ outcome # "synced" => refreshed = EmptyEntry
       /\ outcome = "synced" /\ refreshed # EmptyEntry => live = refreshed.MergeStatus
       /\ envOK' = (envOK /\ outcome = "inSync" /\ head = "plan" /\ live = "CLEAN")
       /\ pushes' = IF outcome \in {"pushFail", "synced"} THEN pushes \cup {0} ELSE pushes
       /\ conflicted' = IF outcome = "synced" /\ conflicted = i THEN 0 ELSE conflicted
       /\ IF outcome \in {"error", "pushFail"}
            THEN /\ Finish("verify_failed", 0)
                 /\ UNCHANGED <<cur, prs, turnLive>>
            ELSE /\ pc' = "dashGate"
                 /\ turnLive' = live
                 /\ cur' = [State |-> IF refreshed # EmptyEntry
                                        THEN refreshed.State ELSE cur.State,
                            MergeStatus |-> IF refreshed # EmptyEntry
                                              THEN refreshed.MergeStatus
                                              ELSE cur.MergeStatus,
                            HeadSHA |-> IF head # "" THEN head ELSE cur.HeadSHA]
                 /\ prs' = IF refreshed # EmptyEntry
                             THEN [prs EXCEPT ![i] = refreshed]
                             ELSE prs
                 /\ UNCHANGED <<result, errURL>>
  /\ UNCHANGED <<cfg, n, i, mergeStatus, retry, elapsed, rk>>
  /\ UNCHANGED <<fvars, rebasing, headRefOid, action, startAuto, calls, muts, gate, confirmed, fellBack, postBase,
                 report, landedCount, dirty>>

\* land.go:873-887: the conflict gate of the dashboard path reads the
\* MergeStatus of its copy of the entry
DashGate ==
  /\ pc = "dashGate"
  /\ IF cur.MergeStatus = "CONFLICTING"
       THEN /\ Finish("conflict", i)
            /\ UNCHANGED gate
       ELSE /\ ToChecks
            /\ UNCHANGED <<result, errURL>>
  /\ pushes' = {}
  /\ UNCHANGED <<cfg, n, prs, i, cur, mergeStatus, retry, elapsed, rk>>
  /\ UNCHANGED <<fvars, branch, rebasing, headRefOid, action, startAuto, calls, muts, turnLive, confirmed, fellBack,
                 postBase, conflicted, report, landedCount, envOK, dirty>>

\* land.go:1478-1480
hasConflicts(resp) ==
  \/ resp.mergeable = "CONFLICTING"
  \/ resp.status = "CONFLICTING"
  \/ resp.status = "DIRTY"

\* what the forge can answer to checkPRConflicts for a PR that conflicts or
\* not; while it recomputes it answers UNKNOWN
ConflictAnswers(truth) ==
  { [mergeable |-> "UNKNOWN", status |-> "UNKNOWN"] } \cup
  (IF truth = "conflict"
     THEN { [mergeable |-> "CONFLICTING", status |-> "DIRTY"],
            [mergeable |-> "CONFLICTING", status |-> "CONFLICTING"] }
     ELSE { [mergeable |-> "MERGEABLE", status |-> "CLEAN"],
            [mergeable |-> "MERGEABLE", status |-> "BLOCKED"] })

\* land.go:928-944 with updatePRBase (1451-1454)
DashUpdateBase ==
  /\ pc = "updateBase"
  /\ cfg.interactive
  /\ fellBack' = FALSE
  /\ UNCHANGED confirmed
  /\ IF HasNext(i, n)
       THEN \E answer \in {"ok", "closed", "other"}, after \in {"clean", "conflict"} :
              /\ answer # "ok" => after = "clean"
              /\ muts' = Append(muts, [Mut("base", i + 1) EXCEPT !.ok = (answer = "ok")])
              /\ envOK' = (envOK /\ answer = "ok")
              /\ conflicted' = IF after = "conflict" THEN i + 1 ELSE conflicted
              /\ report' = [report EXCEPT !.base = IF answer = "ok" THEN "" ELSE answer]
              /\ CASE answer # "ok" /\ BaseFailureIsFatal(answer) ->
                        Finish("next_closed", 0) /\ postBase' = ""
                   [] answer # "ok" /\ ~BaseFailureIsFatal(answer) ->
                        pc' = AfterBase /\ postBase' = "" /\ UNCHANGED <<result, errURL>>
                   [] answer = "ok" ->
                        pc' = "checkConflicts" /\ postBase' = after
                          /\ UNCHANGED <<result, errURL>>
       ELSE /\ pc' = AfterBase
            /\ UNCHANGED <<muts, envOK, conflicted, postBase, report, result, errURL>>
  /\ UNCHANGED <<cfg, n, prs, i, cur, mergeStatus, retry, elapsed, rk>>
  /\ UNCHANGED <<fvars, branch, rebasing, headRefOid, action, startAuto, calls, pushes, turnLive, gate, landedCount, dirty>>

\* land.go:945-951 with checkPRConflicts (1463-1486)
DashCheckConflicts ==
  /\ pc = "checkConflicts"
  /\ postBase' = ""
  /\ \E ok \in BOOLEAN, resp \in ConflictAnswers(postBase) :
       /\ envOK' = (envOK /\ ok /\ ~hasConflicts(resp))
       /\ pc' = IF ok /\ hasConflicts(resp) THEN "rebaseStart" ELSE AfterBase
  /\ UNCHANGED <<cfg, n, prs, i, cur, mergeStatus, retry, elapsed, result, errURL, rk>>
  /\ UNCHANGED <<fvars, branch, rebasing, headRefOid, action, startAuto, calls, muts, pushes, turnLive, gate, confirmed, fellBack,
                 conflicted, report, landedCount, dirty>>

\* land.go:953-963 with rebaseRemainingPRs (1817-1848): fetch, checkout and
\* pull of trunk before the loop over the remaining PRs
DashRebaseStart ==
  /\ pc = "rebaseStart"
  /\ envOK' = FALSE
  /\ \E ok \in BOOLEAN, at \in {branch, "trunk"} :
       IF ok
         THEN /\ pc' = "rebaseOne"
              /\ branch' = "trunk"
              /\ rk' = i + 1
              /\ UNCHANGED <<result, errURL>>
         ELSE /\ Finish("rebase_failed", 0)
              /\ rk' = rk
              /\ branch' = at
  /\ UNCHANGED <<cfg, n, prs, i, cur, mergeStatus, retry, elapsed>>
  /\ UNCHANGED <<fvars, rebasing, headRefOid, action, startAuto, calls, muts, pushes, turnLive, gate, confirmed, fellBack,
                 postBase, conflicted, report, landedCount, dirty>>

\* land.go:1854-1912 and 1914-1947: one remaining PR is checked out, rebased
\* and force-pushed; after the last one the function returns nil
DashRebaseOne ==
  /\ pc = "rebaseOne"
  /\ \E outcome \in {"checkoutFail", "rebaseFail", "pushFail", "ok"} :
       /\ branch' = IF outcome = "checkoutFail" THEN branch ELSE HeadBranch(rk)
       /\ pushes' = IF outcome \in {"pushFail", "ok"} THEN pushes \cup {rk} ELSE pushes
       /\ IF outcome = "ok"
            THEN /\ UNCHANGED <<result, errURL>>
                 /\ IF rk < n
                      THEN rk' = rk + 1 /\ UNCHANGED <<pc, conflicted>>
                      ELSE rk' = 0 /\ pc' = "recheck" /\ conflicted' = 0
            ELSE /\ Finish("rebase_failed", 0)
                 /\ UNCHANGED <<rk, conflicted>>
  /\ UNCHANGED <<cfg, n, prs, i, cur, mergeStatus, retry, elapsed>>
  /\ UNCHANGED <<fvars, rebasing, headRefOid, action, startAuto, calls, muts, turnLive, gate, confirmed, fellBack,
                 postBase, report, landedCount, envOK, dirty>>

\* land.go:965-974: the re-check after the batch rebase
DashRecheck ==
  /\ pc = "recheck"
  /\ \E ok \in BOOLEAN, truth \in {"clean", "conflict"} :
       \E resp \in ConflictAnswers(truth) :
         /\ conflicted' = IF truth = "conflict" THEN i + 1 ELSE 0
         /\ IF ok /\ hasConflicts(resp)
              THEN Finish("still_conflicting", 0)
              ELSE pc' = AfterBase /\ UNCHANGED <<result, errURL>>
  /\ UNCHANGED <<cfg, n, prs, i, cur, mergeStatus, retry, elapsed, rk>>
  /\ UNCHANGED <<fvars, branch, rebasing, headRefOid, action, startAuto, calls, muts, pushes, turnLive, gate, confirmed, fellBack,
                 postBase, report, landedCount, envOK, dirty>>

\* land.go:982-994: what landStackFromDashboard prints for the outcome of the
\* deletion
DashDeleteReport(outcome) ==
  CASE outcome = "ok" -> "deleted"
    [] outcome = "remote ref does not exist" -> "already deleted"
    [] OTHER -> "warning"

\* land.go:979-995 with deleteRemoteBranch (1457-1460)
DashDeleteBranch ==
  /\ pc = "delete"
  /\ cfg.interactive
  /\ \E outcome \in DeleteOutcomes :
       /\ muts' = Append(muts, Mut("delete", i))
       /\ report' = [report EXCEPT !.outcome = outcome,
                                    !.says = DashDeleteReport(outcome)]
       /\ envOK' = (envOK /\ outcome = "ok")
  /\ pc' = "pull"
  /\ UNCHANGED <<cfg, n, prs, i, cur, mergeStatus, retry, elapsed, result, errURL, rk>>
  /\ UNCHANGED <<fvars, branch, rebasing, headRefOid, action, startAuto, calls, pushes, turnLive, gate, confirmed, fellBack,
                 postBase, conflicted, landedCount, dirty>>

\* land.go:997-1002: fetch, checkout and pull under must
DashPull ==
  /\ pc = "pull"
  /\ cfg.interactive
  /\ report' = [report EXCEPT !.outcome = "", !.says = ""]
  /\ confirmed' = ""
  /\ \E ok \in BOOLEAN, at \in {branch, "trunk"} :
       /\ envOK' = (envOK /\ ok)
       /\ branch' = IF ok THEN "trunk" ELSE at
       /\ IF ok
            THEN pc' = "localRebase" /\ UNCHANGED <<result, errURL>>
            ELSE Finish("panic", 0)
  /\ UNCHANGED <<cfg, n, prs, i, cur, mergeStatus, retry, elapsed, rk>>
  /\ UNCHANGED <<fvars, rebasing, headRefOid, action, startAuto, calls, muts, pushes, turnLive, gate, fellBack,
                 postBase, conflicted, landedCount, dirty>>

\* land.go:1004-1039: the remaining commits are rebased onto trunk locally
\* and every remaining branch is pushed with --force-with-lease; a checkout
\* that fails is a warning, a push that fails is a warning
DashLocalRebase ==
  /\ pc = "localRebase"
  /\ IF HasNext(i, n)
       THEN \E outcome \in {"checkoutFail", "rebaseFail", "ok"}, stopped \in BOOLEAN :
              /\ envOK' = (envOK /\ outcome = "ok")
              /\ branch' = IF outcome = "checkoutFail" THEN branch ELSE HeadBranch(n)
              /\ rebasing' = (outcome = "rebaseFail" /\ stopped)
              /\ pushes' = IF outcome = "ok" THEN pushes \cup ((i + 1)..n) ELSE pushes
              /\ conflicted' = IF outcome = "ok" THEN 0 ELSE conflicted
              /\ IF outcome = "rebaseFail"
                   THEN Finish("local_rebase_failed", 0) /\ i' = i
                   ELSE pc' = "dashLoop" /\ i' = i + 1 /\ UNCHANGED <<result, errURL>>
       ELSE /\ pc' = "dashLoop"
            /\ i' = i + 1
            /\ UNCHANGED <<result, errURL, envOK, pushes, conflicted, branch, rebasing>>
  /\ UNCHANGED <<cfg, n, prs, cur, mergeStatus, retry, elapsed, rk>>
  /\ UNCHANGED <<fvars, headRefOid, action, startAuto, calls, muts, turnLive, gate, confirmed, fellBack,
                 postBase, report, landedCount, dirty>>

NextDash ==
  \/ DashFetch
  \/ DashShow
  \/ DashLand
  \/ DashRefresh
  \/ DashQuit
  \/ DashUnknown
  \/ DashLoopHead
  \/ DashVerify
  \/ DashGate
  \/ DashMerge
  \/ DashMergeRetry
  \/ DashUpdateBase
  \/ DashCheckConflicts
  \/ DashRebaseStart
  \/ DashRebaseOne
  \/ DashRecheck
  \/ DashDeleteBranch
  \/ DashPull
  \/ DashLocalRebase

Next == NextLand \/ NextDash

Spec == Init /\ [][Next]_<<vars, fvars>>

\* the unattended run on its own: the program is sequential and, as long as
\* every external call returns, takes its next step
InitUnattended == Init /\ ~cfg.interactive

SpecUnattended ==
  InitUnattended /\ [][NextLand]_<<vars, fvars>> /\ WF_<<vars, fvars>>(NextLand)

\* ---- updateAllPRStatus, step by step ----

\* no run of land is going on: the functions below are called on their own
NoFlags == [dryRun |-> FALSE, interactive |-> FALSE, requireChecks |-> FALSE,
            autoMode |-> FALSE, deleteBranch |-> FALSE]
Parked == InitLand /\ cfg = NoFlags

\* land.go:472: the call starts on a plan of 1..MaxPRs entries, each never
\* fetched or holding what an earlier refresh stored
InitRefresh ==
  /\ Parked
  /\ parse = NotCalled
  /\ plan = NotCalled
  /\ msg = NotCalled
  /\ \E len \in 1..MaxPRs :
       \E old \in [1..len -> FetchedStatus \cup {EmptyEntry}] :
         refresh = [pc |-> "batch", prs |-> old, old |-> old, i |-> 0,
                    queries |-> <<>>, updateError |-> FALSE]
  /\ rollup = NotCalled
  /\ review = NotCalled
  /\ cleanup = NotCalled

\* a query the call issued: the batched one (pr = 0) or the one for entry pr
Query(kind, k, ok) == [kind |-> kind, pr |-> k, ok |-> ok]

\* land.go:483: the per-entry queries run only when the batched query failed
NeedsFallback_Always(err) == TRUE

NeedsFallback(err) == err

\* land.go:483, 556-606: the batched query; it fails before any entry is
\* written, or it answers for the keys "pr<i>" it holds and every other
\* entry stays as it was
RefreshBatch ==
  /\ refresh.pc = "batch"
  /\ \E err \in BOOLEAN :
       \E new \in updateAllPRStatus(refresh.prs) :
         /\ err => new = refresh.prs
         /\ refresh' = [refresh EXCEPT
              !.queries = Append(@, Query("batch", 0, ~err)),
              !.updateError = err,
              !.prs = new,
              !.i = IF NeedsFallback(err) THEN 1 ELSE 0,
              !.pc = IF NeedsFallback(err) THEN "fallback" ELSE "returned"]
  /\ UNCHANGED <<vars, rollup, review, cleanup, parse, plan, msg>>

\* land.go:699-715: updatePRStatus returns its error before it writes the
\* entry
updatePRStatus(entry) ==
  {[ok |-> FALSE, entry |-> entry]} \cup
  {[ok |-> TRUE, entry |-> fetched] : fetched \in FetchedStatus}

\* land.go:488-492: one turn of the fallback loop; the error is only logged
RefreshOne ==
  /\ refresh.pc = "fallback"
  /\ LET k == refresh.i IN
       \E r \in updatePRStatus(refresh.prs[k]) :
         refresh' = [refresh EXCEPT
           !.queries = Append(@, Query("one", k, r.ok)),
           !.prs[k] = r.entry,
           !.i = k + 1,
           !.pc = IF k + 1 <= Len(refresh.prs) THEN "fallback" ELSE "returned"]
  /\ UNCHANGED <<vars, rollup, review, cleanup, parse, plan, msg>>

NextRefresh == RefreshBatch \/ RefreshOne

SpecRefresh == InitRefresh /\ [][NextRefresh]_<<vars, fvars>>

\* ---- updatePRStatusBatch: the checks of one PR ----

\* land.go:575-582: a node of statusCheckRollup.contexts as it is decoded; a
\* check run carries status and conclusion, a status context carries state,
\* and a node of neither type (a null element of the list) decodes to the
\* zero value
CheckRunNodes ==
  [TypeName : {"CheckRun"},
   Status : {"COMPLETED", "IN_PROGRESS"},
   Conclusion : {"SUCCESS", "FAILURE", "CANCELLED", "TIMED_OUT",
                 "ACTION_REQUIRED", "NEUTRAL", "SKIPPED", ""},
   State : {""}]
StatusContextNodes ==
  [TypeName : {"StatusContext"}, Status : {""}, Conclusion : {""},
   State : {"SUCCESS", "FAILURE", "ERROR", "PENDING"}]
ZeroNode == [TypeName |-> "", Status |-> "", Conclusion |-> "", State |-> ""]
RawNodes == CheckRunNodes \cup StatusContextNodes \cup {ZeroNode}

NodeLists == UNION {[1..len -> RawNodes] : len \in 0..MaxNodes}

\* land.go:646-660: the bucket of a check run
CheckRunBucket(check) ==
  CASE check.Conclusion = "SUCCESS" -> "pass"
    [] check.Conclusion \in {"FAILURE", "CANCELLED", "TIMED_OUT", "ACTION_REQUIRED"} -> "fail"
    [] OTHER -> IF check.Status = "COMPLETED" THEN "pass" ELSE "pending"

\* land.go:664-674: the bucket of a status context
StatusContextBucket(check) ==
  CASE check.State = "SUCCESS" -> "pass"
    [] check.State \in {"FAILURE", "ERROR"} -> "fail"
    [] OTHER -> "pending"

\* land.go:640-676: cs.Bucket for one node; no branch sets it for a node
\* that is neither a check run nor a status context
NodeBucket(check) ==
  IF check.TypeName = "CheckRun" THEN CheckRunBucket(check)
  ELSE IF check.TypeName = "StatusContext" THEN StatusContextBucket(check)
  ELSE ""

\* land.go:639-679: the loop over the nodes from position k on: one counter
\* goes up with the bucket that is set, and the check is appended
RECURSIVE ProcessNodes(_, _, _)
ProcessNodes(nodes, k, acc) ==
  IF k > Len(nodes) THEN acc
  ELSE LET b == NodeBucket(nodes[k]) IN
       ProcessNodes(nodes, k + 1,
         [Checks  |-> Append(acc.Checks, [Bucket |-> b]),
          passing |-> acc.passing + (IF b = "pass" THEN 1 ELSE 0),
          failing |-> acc.failing + (IF b = "fail" THEN 1 ELSE 0),
          pending |-> acc.pending + (IF b = "pending" THEN 1 ELSE 0)])

\* land.go:681-690: the overall check status from the three counters
OverallChecksStatus_PendingFirst(passing, failing, pending) ==
  IF pending > 0 THEN "PENDING"
  ELSE IF failing > 0 THEN "FAILING"
  ELSE IF passing > 0 THEN "PASSING"
  ELSE "NONE"

OverallChecksStatus(passing, failing, pending) ==
  IF failing > 0 THEN "FAILING"
  ELSE IF pending > 0 THEN "PENDING"
  ELSE IF passing > 0 THEN "PASSING"
  ELSE "NONE"

\* the entry holds the checks an earlier refresh stored, or none
InitRollup ==
  /\ Parked
  /\ refresh = NotCalled
  /\ parse = NotCalled
  /\ plan = NotCalled
  /\ msg = NotCalled
  /\ review = NotCalled
  /\ cleanup = NotCalled
  /\ \E nodes \in NodeLists :
       \E stale \in {<<>>, <<[Bucket |-> "fail"]>>} :
         rollup = [pc |-> "checks", Nodes |-> nodes, Checks |-> stale,
                   ChecksStatus |-> IF stale = <<>> THEN "" ELSE "FAILING",
                   Batched |-> "",
                   passing |-> 0, failing |-> 0, pending |-> 0]

\* land.go:634-690
BatchChecks ==
  /\ rollup.pc = "checks"
  /\ LET r == ProcessNodes(rollup.Nodes, 1,
                 [Checks |-> <<>>, passing |-> 0, failing |-> 0, pending |-> 0])
     IN rollup' = [rollup EXCEPT
          !.pc = "stored",
          !.Checks = r.Checks,
          !.passing = r.passing, !.failing = r.failing, !.pending = r.pending,
          !.ChecksStatus = OverallChecksStatus(r.passing, r.failing, r.pending)]
  /\ UNCHANGED <<vars, refresh, review, cleanup, parse, plan, msg>>

\* land.go:735-744: the counter that goes up for one element of the
\* statusCheckRollup list of `gh pr view`; only status and conclusion are
\* decoded (709-713), so a status context, which has no conclusion, arrives
\* with the empty one
SingleBucket(check) ==
  CASE check.Conclusion \in {"SUCCESS", "NEUTRAL", "SKIPPED"} -> "pass"
    [] check.Conclusion \in {"FAILURE", "CANCELLED", "TIMED_OUT", "ACTION_REQUIRED"} -> "fail"
    [] OTHER -> "pending"

\* land.go:727-752: the overall check status updatePRStatus stores
SingleChecksStatus(nodes) ==
  IF Len(nodes) = 0 THEN "NONE"
  ELSE LET buckets == {SingleBucket(nodes[j]) : j \in 1..Len(nodes)}
       IN IF "fail" \in buckets THEN "FAILING"
          ELSE IF "pending" \in buckets THEN "PENDING"
          ELSE "PASSING"

\* land.go:488-492 with 721-752: a later refresh whose batched query failed
\* reads the same checks with updatePRStatus; it overwrites ChecksStatus and
\* leaves the stored Checks alone.  Batched keeps what the batched refresh
\* had stored.
FallbackChecks ==
  /\ rollup.pc = "stored"
  /\ rollup' = [rollup EXCEPT
       !.pc = "refreshed",
       !.Batched = rollup.ChecksStatus,
       !.ChecksStatus = SingleChecksStatus(rollup.Nodes)]
  /\ UNCHANGED <<vars, refresh, review, cleanup, parse, plan, msg>>

NextRollup == BatchChecks \/ FallbackChecks

SpecRollup == InitRollup /\ [][NextRollup]_<<vars, fvars>>

\* ---- updatePRStatusBatch: the reviews of one PR ----

\* land.go:564-571: the review states and the review decision of the
\* response; DISMISSED stands for the states the switch does not count
ReviewStates == {"APPROVED", "CHANGES_REQUESTED", "COMMENTED", "DISMISSED"}
ReviewDecisions == {"", "REVIEW_REQUIRED", "APPROVED", "CHANGES_REQUESTED"}
ReviewLists == UNION {[1..len -> ReviewStates] : len \in 0..MaxReviews}

\* land.go:609-621: the loop that counts the reviews from position k on
RECURSIVE CountReviews(_, _, _)
CountReviews(nodes, k, acc) ==
  IF k > Len(nodes) THEN acc
  ELSE CountReviews(nodes, k + 1,
         CASE nodes[k] = "APPROVED" -> [acc EXCEPT !.approved = @ + 1]
           [] nodes[k] = "CHANGES_REQUESTED" -> [acc EXCEPT !.changesRequested = @ + 1]
           [] nodes[k] = "COMMENTED" -> [acc EXCEPT !.commented = @ + 1]
           [] OTHER -> acc)

\* land.go:622-632: the summary, as the icon and the text after it; the
\* count is formatted with %d
ReviewSummary_ApprovedFirst(c, decision) ==
  IF c.approved > 0
    THEN [icon |-> "check", text |-> ToString(c.approved) \o " approved"]
  ELSE IF c.changesRequested > 0
    THEN [icon |-> "cross", text |-> ToString(c.changesRequested) \o " changes requested"]
  ELSE IF decision = "REVIEW_REQUIRED"
    THEN [icon |-> "hourglass", text |-> "Review required"]
  ELSE IF c.commented > 0
    THEN [icon |-> "speech", text |-> ToString(c.commented) \o " comments"]
  ELSE [icon |-> "", text |-> ""]

ReviewSummary(c, decision) ==
  IF c.changesRequested > 0
    THEN [icon |-> "cross", text |-> ToString(c.changesRequested) \o " changes requested"]
  ELSE IF c.approved > 0
    THEN [icon |-> "check", text |-> ToString(c.approved) \o " approved"]
  ELSE IF decision = "REVIEW_REQUIRED"
    THEN [icon |-> "hourglass", text |-> "Review required"]
  ELSE IF c.commented > 0
    THEN [icon |-> "speech", text |-> ToString(c.commented) \o " comments"]
  ELSE [icon |-> "", text |-> ""]

\* the entry holds the summary an earlier refresh stored, or none
InitReview ==
  /\ Parked
  /\ refresh = NotCalled
  /\ parse = NotCalled
  /\ plan = NotCalled
  /\ msg = NotCalled
  /\ rollup = NotCalled
  /\ cleanup = NotCalled
  /\ \E nodes \in ReviewLists, decision \in ReviewDecisions :
       \E stale \in {[icon |-> "", text |-> ""],
                     [icon |-> "check", text |-> "1 approved"]} :
         review = [pc |-> "reviews", Reviews |-> nodes,
                   ReviewDecision |-> decision, ReviewStatus |-> stale]

\* land.go:608-632
BatchReviews ==
  /\ review.pc = "reviews"
  /\ LET c == CountReviews(review.Reviews, 1,
                 [approved |-> 0, changesRequested |-> 0, commented |-> 0])
     IN review' = [review EXCEPT
          !.pc = "stored",
          !.ReviewStatus = ReviewSummary(c, review.ReviewDecision)]
  /\ UNCHANGED <<vars, refresh, rollup, cleanup, parse, plan, msg>>

NextReview == BatchReviews

SpecReview == InitReview /\ [][NextReview]_<<vars, fvars>>

\* ---- cleanupPRBodyForMerge ----

\* A string is the sequence of its characters.
Space == {" ", "\t", "\n", "\r", "\f"}
Digit == {"0", "1", "2", "3", "4", "5", "6", "7", "8", "9"}
Word == Digit \cup {"_"} \cup
  {"a", "b", "c", "d", "e", "f", "g", "h", "i", "j", "k", "l", "m",
   "n", "o", "p", "q", "r", "s", "t", "u", "v", "w", "x", "y", "z",
   "A", "B", "C", "D", "E", "F", "G", "H", "I", "J", "K", "L", "M",
   "N", "O", "P", "Q", "R", "S", "T", "U", "V", "W", "X", "Y", "Z"}

SetMin(S) == CHOOSE x \in S : \A y \in S : x <= y
SetMax(S) == CHOOSE x \in S : \A y \in S : x >= y

\* the pattern pat stands in s at position p
StartsAt(s, p, pat) ==
  /\ p >= 1 /\ p + Len(pat) - 1 <= Len(s)
  /\ \A k \in 1..Len(pat) : s[p + k - 1] = pat[k]

\* the first position from p on that holds no character of class, Len(s)+1
\* if there is none: where a greedy class* that starts at p ends
SkipIn(s, p, class) ==
  SetMin({q \in p..(Len(s) + 1) : q = Len(s) + 1 \/ s[q] \notin class})

\* the same for the class of . (every character but the newline)
SkipLine(s, p) ==
  SetMin({q \in p..(Len(s) + 1) : q = Len(s) + 1 \/ s[q] = "\n"})

\* strings.TrimSpace
TrimSpace(s) ==
  LET keep == {k \in 1..Len(s) : s[k] \notin Space}
  IN IF keep = {} THEN <<>> ELSE SubSeq(s, SetMin(keep), SetMax(keep))

\* land.go:1198: strings.ReplaceAll(body, "\r\n", "\n"), from position p on
RECURSIVE NormalizeLineEndings(_, _)
NormalizeLineEndings(s, p) ==
  IF p > Len(s) THEN <<>>
  ELSE IF StartsAt(s, p, <<"\r", "\n">>)
    THEN <<"\n">> \o NormalizeLineEndings(s, p + 2)
  ELSE <<s[p]>> \o NormalizeLineEndings(s, p + 1)

CommentOpen == <<"<", "!", "-", "-">>
CommentClose == <<"-", "-", ">">>

\* land.go:1169, 1219: htmlCommentRegex.ReplaceAllString(body, ""), from
\* position p on: the leftmost "<!--" that has a "-->" after it is cut out
\* up to the nearest such "-->", and the scan goes on behind the cut
RECURSIVE htmlCommentRegex(_, _)
htmlCommentRegex(s, p) ==
  IF p > Len(s) THEN <<>>
  ELSE LET closes == {q \in (p + 4)..Len(s) : StartsAt(s, q, CommentClose)}
       IN IF StartsAt(s, p, CommentOpen) /\ closes # {}
            THEN htmlCommentRegex(s, SetMin(closes) + 3)
            ELSE <<s[p]>> \o htmlCommentRegex(s, p + 1)

\* land.go:1172: where a match of markdownCommentRegex that starts at p
\* ends (the position behind it), 0 if none starts at p. The match starts
\* at the start of a line with "[", word characters or slashes, "]:", then
\* "#" and an opening bracket or quote, each after any white space; it takes
\* the rest of that line and the white space behind it up to the last line
\* end of that white space
markdownCommentEnd(s, p) ==
  IF ~(p <= Len(s) /\ s[p] = "[" /\ (p = 1 \/ s[p - 1] = "\n")) THEN 0
  ELSE LET q == SkipIn(s, p + 1, Word \cup {"/"}) IN
  IF ~StartsAt(s, q, <<"]", ":">>) THEN 0
  ELSE LET r == SkipIn(s, q + 2, Space) IN
  IF ~(r <= Len(s) /\ s[r] = "#") THEN 0
  ELSE LET t == SkipIn(s, r + 1, Space) IN
  IF ~(t <= Len(s) /\ s[t] \in {"(", "\"", "'"}) THEN 0
  ELSE LET e == SkipLine(s, t + 1)
           w == SkipIn(s, e, Space)
       IN IF w > Len(s) THEN Len(s) + 1
          ELSE SetMax({m \in e..w : m = e \/ (m < w /\ s[m] = "\n")})

\* land.go:1222: markdownCommentRegex.ReplaceAllString(body, ""), from
\* position p on
RECURSIVE markdownCommentRegex(_, _)
markdownCommentRegex(s, p) ==
  IF p > Len(s) THEN <<>>
  ELSE LET m == markdownCommentEnd(s, p)
       IN IF m > p THEN markdownCommentRegex(s, m)
          ELSE <<s[p]>> \o markdownCommentRegex(s, p + 1)

\* land.go:1217-1225
removeComments(body) ==
  markdownCommentRegex(htmlCommentRegex(body, 1), 1)

\* strings.Split(body, "\n"): the lines of s from position p on
RECURSIVE Split(_, _)
Split(s, p) ==
  LET e == SkipLine(s, p)
      line == SubSeq(s, p, e - 1)
  IN IF e > Len(s) THEN <<line>> ELSE <<line>> \o Split(s, e + 1)

\* strings.Join(lines, "\n")
RECURSIVE Join(_)
Join(lines) ==
  IF lines = <<>> THEN <<>>
  ELSE IF Len(lines) = 1 THEN lines[1]
  ELSE lines[1] \o <<"\n">> \o Join(Tail(lines))

\* land.go:1175: prReferenceRegex matches the line: "*", anything, "#" and
\* a digit
prReferenceRegex(line) ==
  /\ Len(line) >= 1 /\ line[1] = "*"
  /\ \E h \in 2..(Len(line) - 1) : line[h] = "#" /\ line[h + 1] \in Digit

\* land.go:1264-1274; lines are counted from 1 here: only the line before
\* line k is looked at
hasPrecedingEmptyLine(lines, k) ==
  k > 1 /\ TrimSpace(lines[k - 1]) = <<>>

\* land.go:1277-1284
hasStackInfoAfter(lines, k) ==
  \E j \in (k + 1)..Len(lines) : prReferenceRegex(TrimSpace(lines[j]))

\* land.go:1287-1298: the number of lines that stay, those up to the last
\* line before line k that is not empty
findFirstEmptyLineBefore(lines, k) ==
  LET full == {j \in 1..(k - 1) : TrimSpace(lines[j]) # <<>>}
  IN IF full = {} THEN 0 ELSE SetMax(full)

\* land.go:1242-1261: the number of lines that stay, -1 if there is no
\* footer: the first "---" line with an empty line before it and a PR
\* reference somewhere after it decides
findStackFooterStart(lines) ==
  LET seps == {k \in 1..Len(lines) :
                 /\ TrimSpace(lines[k]) = <<"-", "-", "-">>
                 /\ hasPrecedingEmptyLine(lines, k)
                 /\ hasStackInfoAfter(lines, k)}
  IN IF seps = {} THEN -1 ELSE findFirstEmptyLineBefore(lines, SetMin(seps))

\* land.go:1228-1238
removeStackFooter(body) ==
  LET lines == Split(body, 1)
      footerStart == findStackFooterStart(lines)
  IN IF footerStart >= 0 THEN Join(SubSeq(lines, 1, footerStart)) ELSE body

\* land.go:1178, 1303: multipleBlankLinesRegex.ReplaceAllString(body,
\* "\n\n"), from position p on
RECURSIVE multipleBlankLinesRegex(_, _)
multipleBlankLinesRegex(s, p) ==
  IF p > Len(s) THEN <<>>
  ELSE IF s[p] # "\n" THEN <<s[p]>> \o multipleBlankLinesRegex(s, p + 1)
  ELSE LET e == SkipIn(s, p, {"\n"})
       IN (IF e - p >= 3 THEN <<"\n", "\n">> ELSE SubSeq(s, p, e - 1))
            \o multipleBlankLinesRegex(s, e)

\* one "<br>", "<br/>" or "<br />" tag at position p: the position behind
\* it, 0 if there is none
BrTagEnd(s, p) ==
  IF ~StartsAt(s, p, <<"<", "b", "r">>) THEN 0
  ELSE LET r == SkipIn(s, p + 3, Space)
           g == IF r <= Len(s) /\ s[r] = "/" THEN r + 1 ELSE r
       IN IF g <= Len(s) /\ s[g] = ">" THEN g + 1 ELSE 0

\* from position p to the end there are only white space and br tags
RECURSIVE OnlyBrAndSpace(_, _)
OnlyBrAndSpace(s, p) ==
  LET q == SkipIn(s, p, Space)
  IN \/ q > Len(s)
     \/ BrTagEnd(s, q) > 0 /\ OnlyBrAndSpace(s, BrTagEnd(s, q))

\* land.go:1181, 1306: trailingBrRegex.ReplaceAllString(body, ""): the body
\* is cut at the leftmost position from which white space, at least one br
\* tag, and then only br tags and white space follow
trailingBrRegex(s) ==
  LET cuts == {p \in 1..Len(s) :
                 LET q == SkipIn(s, p, Space)
                 IN BrTagEnd(s, q) > 0 /\ OnlyBrAndSpace(s, BrTagEnd(s, q))}
  IN IF cuts = {} THEN s ELSE SubSeq(s, 1, SetMin(cuts) - 1)

\* land.go:1301-1309
cleanupFormatting(body) ==
  trailingBrRegex(multipleBlankLinesRegex(body, 1))

\* land.go:1184: emptyTemplateRegex matches: "#", "Summary" after any white
\* space, then only white space and br tags
emptyTemplateRegex(s) ==
  /\ Len(s) >= 1 /\ s[1] = "#"
  /\ LET q == SkipIn(s, 2, Space)
     IN /\ StartsAt(s, q, <<"S", "u", "m", "m", "a", "r", "y">>)
        /\ OnlyBrAndSpace(s, q + 7)

\* land.go:1187: the positions behind one unit of onlyHeadersRegex that
\* starts at p: a white space character; "#"s, a word, each followed by
\* any white space; or a word, white space with a line end in it, a run of
\* "-" and "=", and any white space
HeaderUnitEnds(s, p) ==
  LET afterSpace(from) == from..SkipIn(s, from, Space)
      atx ==
        IF s[p] # "#" THEN {}
        ELSE LET b == SkipIn(s, SkipIn(s, p, {"#"}), Space)
                 c == SkipIn(s, b, Word)
             IN UNION {afterSpace(w) : w \in (b + 1)..c}
      setext ==
        IF s[p] \notin Word THEN {}
        ELSE LET c == SkipIn(s, p, Word)
                 w == SkipIn(s, c, Space)
                 e == SkipIn(s, w, {"-", "="})
             IN IF \E k \in c..(w - 1) : s[k] = "\n"
                  THEN UNION {afterSpace(d) : d \in (w + 1)..e}
                  ELSE {}
  IN (IF s[p] \in Space THEN {p + 1} ELSE {}) \cup atx \cup setext

\* land.go:1187: onlyHeadersRegex matches s from position p to the end
RECURSIVE onlyHeadersRegex(_, _)
onlyHeadersRegex(s, p) ==
  \/ p > Len(s)
  \/ \E q \in HeaderUnitEnds(s, p) : onlyHeadersRegex(s, q)

\* land.go:1312-1326
isEmptyBody_Never(body) == FALSE

isEmptyBody(body) ==
  LET trimmed == TrimSpace(body)
  IN emptyTemplateRegex(trimmed) \/ onlyHeadersRegex(trimmed, 1)

\* land.go:1191-1214
cleanupPRBodyForMerge(body) ==
  IF body = <<>> THEN <<>>
  ELSE LET cleaned ==
             cleanupFormatting(removeStackFooter(removeComments(
               NormalizeLineEndings(body, 1))))
       IN IF isEmptyBody(cleaned) THEN <<>> ELSE TrimSpace(cleaned)

\* the pieces the bodies of the model are put together from: the comment
\* delimiters and parts of them, text, a line end, a blank, a separator
\* line with its line ends, a PR reference and a markdown comment
Pieces ==
  { CommentOpen, CommentClose, <<"<", "!">>, <<"-", "-">>,
    <<"x">>, <<"\n">>, <<" ">>, <<"\n", "-", "-", "-", "\n">>,
    <<"*", " ", "#", "1">>,
    <<"[", "/", "/", "]", ":", " ", "#", " ", "(", "x", ")">> }

RECURSIVE Flatten(_)
Flatten(parts) ==
  IF parts = <<>> THEN <<>> ELSE Head(parts) \o Flatten(Tail(parts))

\* github.go: pr.Body, any text over the pieces
InitCleanup ==
  /\ Parked
  /\ refresh = NotCalled
  /\ parse = NotCalled
  /\ plan = NotCalled
  /\ msg = NotCalled
  /\ rollup = NotCalled
  /\ review = NotCalled
  /\ \E len \in 0..MaxPieces :
       \E parts \in [1..len -> Pieces] :
         cleanup = [pc |-> "call", body |-> Flatten(parts),
                    out |-> <<>>, bodyArg |-> <<>>, again |-> <<>>]

\* land.go:1142-1147: the value mergePR passes with --body
BodyArg(body) == IF body # <<>> THEN body ELSE <<>>

\* land.go:1131-1147: mergePR cleans the body of the PR and builds the
\* --body argument of the merge request
CleanupBody ==
  /\ cleanup.pc = "call"
  /\ LET body == cleanupPRBodyForMerge(cleanup.body)
     IN cleanup' = [cleanup EXCEPT !.pc = "cleaned",
                                   !.out = body,
                                   !.bodyArg = BodyArg(body)]
  /\ UNCHANGED <<vars, refresh, rollup, review, parse, plan, msg>>

\* the function applied to its own result
CleanupAgain ==
  /\ cleanup.pc = "cleaned"
  /\ cleanup' = [cleanup EXCEPT !.pc = "twice",
                                !.again = cleanupPRBodyForMerge(cleanup.out)]
  /\ UNCHANGED <<vars, refresh, rollup, review, parse, plan, msg>>

NextCleanup == CleanupBody \/ CleanupAgain

SpecCleanup == InitCleanup /\ [][NextCleanup]_<<vars, fvars>>

\* ---- cleanupPRBodyForMerge on the empty template ----

Heading == <<"#", " ", "S", "u", "m", "m", "a", "r", "y">>
BrTag == <<"<", "b", "r", ">">>

\* main.go:25-29: what follows the heading in bodyTemplate
TemplateTail == <<"\n", "\n">> \o BrTag \o BrTag \o BrTag \o BrTag \o <<"\n">>

\* main.go:25-29
bodyTemplate == <<"\n">> \o Heading \o TemplateTail

\* what a body of the heading alone can hold behind the heading: line ends,
\* blanks and br tags in two spellings
TailPieces ==
  { <<"\n">>, <<" ">>, BrTag, <<"<", "b", "r", " ", "/", ">">> }

\* pr.Body is the template, or the heading "# Summary", after nothing, a
\* line end or a blank, and before up to MaxPieces of the pieces above
InitTemplate ==
  /\ Parked
  /\ refresh = NotCalled
  /\ parse = NotCalled
  /\ plan = NotCalled
  /\ msg = NotCalled
  /\ rollup = NotCalled
  /\ review = NotCalled
  /\ \E lead \in {<<>>, <<"\n">>, <<" ">>} :
       \E len \in 0..MaxPieces :
         \E parts \in [1..len -> TailPieces] :
           \E body \in {bodyTemplate, lead \o Heading \o Flatten(parts)} :
             cleanup = [pc |-> "call", body |-> body,
                        out |-> <<>>, bodyArg |-> <<>>, again |-> <<>>]

SpecTemplate == InitTemplate /\ [][NextCleanup]_<<vars, fvars>>

\* ---- parseLogs and getStackedCommits ----

HashLen == 40
HexDigit == Digit \cup {"a", "b", "c", "d", "e", "f"}
KeyChar == (Word \ {"_"}) \cup {"-"}
UpperCase == <<"A", "B", "C", "D", "E", "F", "G", "H", "I", "J", "K", "L", "M",
               "N", "O", "P", "Q", "R", "S", "T", "U", "V", "W", "X", "Y", "Z">>
LowerCase == <<"a", "b", "c", "d", "e", "f", "g", "h", "i", "j", "k", "l", "m",
               "n", "o", "p", "q", "r", "s", "t", "u", "v", "w", "x", "y", "z">>

\* strings.ToLower
ToLower(s) ==
  [k \in 1..Len(s) |->
     IF \E j \in 1..Len(UpperCase) : UpperCase[j] = s[k]
     THEN LowerCase[CHOOSE j \in 1..Len(UpperCase) : UpperCase[j] = s[k]]
     ELSE s[k]]

CommitWord == <<"c", "o", "m", "m", "i", "t", " ">>
AuthorWord == <<"A", "u", "t", "h", "o", "r", ":", " ">>
DateWord == <<"D", "a", "t", "e", ":", " ", " ", " ">>
Indent == <<" ", " ", " ", " ">>

\* git.go:13, ^commit ([0-9a-f]{40})$: the hash, or <<>> when the line does
\* not match
regexpCommitHash(line) ==
  IF /\ Len(line) = Len(CommitWord) + HashLen
     /\ StartsAt(line, 1, CommitWord)
     /\ \A k \in (Len(CommitWord) + 1)..Len(line) : line[k] \in HexDigit
  THEN SubSeq(line, Len(CommitWord) + 1, Len(line))
  ELSE <<>>

\* git.go:14, ^Author: (.*) <(.*)>$: the first group is greedy, so the name
\* ends at the last " <" of the line
regexpAuthor(line) ==
  LET at == {k \in (Len(AuthorWord) + 1)..(Len(line) - 2) :
               line[k] = " " /\ line[k + 1] = "<"}
  IN IF /\ StartsAt(line, 1, AuthorWord)
        /\ Len(line) > 0 /\ line[Len(line)] = ">"
        /\ at # {}
     THEN [ok |-> TRUE,
           name |-> SubSeq(line, Len(AuthorWord) + 1, SetMax(at) - 1),
           email |-> SubSeq(line, SetMax(at) + 2, Len(line) - 1)]
     ELSE [ok |-> FALSE, name |-> <<>>, email |-> <<>>]

\* git.go:15, ^Date:   (.*)$
regexpDate(line) == StartsAt(line, 1, DateWord)

\* git.go:16, ^    ([a-zA-Z0-9-]+): (.*)$: the key is the run of key
\* characters after the four blanks, and ": " must follow it
regexpKeyVal(line) ==
  LET from == Len(Indent) + 1
      stop == {k \in from..(Len(line) + 1) :
                 k > Len(line) \/ line[k] \notin KeyChar}
      e == SetMin(stop)
  IN IF /\ StartsAt(line, 1, Indent)
        /\ e > from
        /\ StartsAt(line, e, <<":", " ">>)
     THEN [ok |-> TRUE,
           key |-> SubSeq(line, from, e - 1),
           val |-> SubSeq(line, e + 2, Len(line))]
     ELSE [ok |-> FALSE, key |-> <<>>, val |-> <<>>]

\* git.go:131-142: the lines after the first one, each trimmed and followed
\* by a line end
RECURSIVE MessageText(_)
MessageText(lines) ==
  IF lines = <<>> THEN <<>>
  ELSE TrimSpace(Head(lines)) \o <<"\n">> \o MessageText(Tail(lines))

\* git.go:131-142
parseBody(lines) ==
  IF Len(lines) = 0 THEN [Title |-> <<>>, Message |-> <<>>]
  ELSE [Title |-> TrimSpace(lines[1]),
        Message |-> TrimSpace(MessageText(Tail(lines)))]

NoCommit ==
  [Hash |-> <<>>, AuthorName |-> <<>>, AuthorEmail |-> <<>>, Dated |-> FALSE,
   Title |-> <<>>, Message |-> <<>>, Attrs |-> <<>>]

\* git.go:74-129.  bodyStart and bodyEnd hold the values of the Go variables
\* (indices counted from 0); panic is TRUE when the slice expression of line
\* 123 is out of range or the validation of line 125 fails.  The Date lines
\* of the model are in the layout git prints, so the time is not parsed.
parseLogsCommit(lines) ==
  LET blanks == {k \in 1..Len(lines) : lines[k] = <<>>}
      header == IF blanks = {} THEN Len(lines) ELSE SetMin(blanks) - 1
      bodyStart == IF blanks = {} THEN 0 ELSE SetMin(blanks)
      hashes == {k \in 1..header : regexpCommitHash(lines[k]) # <<>>}
      authors == {k \in 1..header : regexpAuthor(lines[k]).ok}
      author == IF authors = {} THEN regexpAuthor(<<>>)
                ELSE regexpAuthor(lines[SetMax(authors)])
      truncated == IF blanks = {} THEN 0 ELSE SetMax(blanks) - 1
      others == {k \in 1..truncated : ~regexpKeyVal(lines[k]).ok}
      bodyEnd == IF others = {} THEN truncated ELSE SetMax(others)
      footer == IF others = {} THEN truncated ELSE truncated - SetMax(others)
      body == parseBody(SubSeq(lines, bodyStart + 1, bodyEnd))
      out == [Hash |-> IF hashes = {} THEN <<>>
                       ELSE regexpCommitHash(lines[SetMax(hashes)]),
              AuthorName |-> author.name,
              AuthorEmail |-> author.email,
              Dated |-> \E k \in 1..header : regexpDate(lines[k]),
              Title |-> body.Title,
              Message |-> body.Message,
              Attrs |-> [j \in 1..footer |->
                           LET m == regexpKeyVal(lines[truncated - j + 1])
                           IN [key |-> ToLower(m.key),
                               val |-> TrimSpace(m.val)]]]
  IN IF bodyStart > bodyEnd THEN [panic |-> TRUE, commit |-> NoCommit]
     ELSE [panic |-> \/ out.Hash = <<>> \/ out.AuthorName = <<>>
                     \/ out.AuthorEmail = <<>> \/ out.Title = <<>>,
           commit |-> out]

\* git.go:53-65: the loop over the lines from line k on, with the lines
\* gathered for the current commit and the commits parsed so far
RECURSIVE parseLogsLines(_, _, _, _)
parseLogsLines(lines, k, part, out) ==
  IF k > Len(lines)
  THEN LET item == parseLogsCommit(part)
       IN [panic |-> item.panic,
           out |-> IF item.panic THEN <<>> ELSE Append(out, item.commit)]
  ELSE IF regexpCommitHash(lines[k]) # <<>> /\ Len(part) > 0
  THEN LET item == parseLogsCommit(part)
       IN IF item.panic THEN [panic |-> TRUE, out |-> <<>>]
          ELSE parseLogsLines(lines, k + 1, <<lines[k]>>,
                              Append(out, item.commit))
  ELSE parseLogsLines(lines, k + 1,
                      IF regexpCommitHash(lines[k]) # <<>> THEN <<lines[k]>>
                      ELSE Append(part, lines[k]),
                      out)

\* git.go:47-72
parseLogs(logs) ==
  IF TrimSpace(logs) = <<>> THEN [panic |-> FALSE, out |-> <<>>]
  ELSE parseLogsLines(Split(logs, 1), 1, <<>>, <<>>)

\* utils.go:70-76
revert(list) == [k \in 1..Len(list) |-> list[Len(list) - k + 1]]

\* the log texts of the model: what `git log` prints for up to MaxCommits
\* commits, optionally after a blank line, and texts of white space only
MaxCommits == 2

AuthorLine == AuthorWord \o <<"T", "e", "s", "t", " ", "U", "s", "e", "r", " ", "<", "t", "e", "s", "t", "@", "e", "x", "a", "m", "p", "l", "e", ".", "c", "o", "m", ">">>
DateLine == DateWord \o <<"M", "o", "n", " ", "J", "a", "n", " ", "1", " ", "0", "0", ":", "0", "0", ":", "0", "0", " ", "2", "0", "2", "4", " ", "+", "0", "0", "0", "0">>
Titles == { <<"f", "i", "x", " ", "t", "h", "e", " ", "p", "a", "r", "s", "e", "r">>,
            <<"c", "h", "o", "r", "e", ":", " ", "c", "o", "m", "m", "i", "t", " ", "w", "i", "t", "h", " ", "n", "o", " ", "b", "o", "d", "y">>,
            <<"[", "d", "r", "a", "f", "t", "]", " ", "a", ":", " ", "b">> }
BodyLines == <<<<" ", " ", " ", " ", "T", "h", "i", "s", " ", "i", "s", " ", "a", " ", "t", "e", "s", "t", " ", "c", "o", "m", "m", "i", "t", ".">>>>
TrailerLines == <<<<" ", " ", " ", " ", "R", "e", "m", "o", "t", "e", "-", "R", "e", "f", ":", " ", "t", "e", "s", "t", "u", "s", "e", "r", "/", "a", "b", "c", "1", "2", "3", "d", "e">>>>
BlankTexts == { <<>>, <<"\n">>, <<" ", " ", " ", "\n", " ", " ", "\n", " ", " ">> }

\* the hash of the k-th commit of a log
HashOf(k) == [j \in 1..HashLen |-> LowerCase[k]]

\* the lines `git log` prints for one commit, with the blank line after it
CommitLines(k, shape) ==
  <<CommitWord \o HashOf(k), AuthorLine, DateLine, <<>>, Indent \o shape.title>>
  \o (IF shape.body THEN <<<<>>>> \o BodyLines ELSE <<>>)
  \o (IF shape.trailers THEN <<<<>>>> \o TrailerLines ELSE <<>>)
  \o <<<<>>>>

RECURSIVE LogLines(_, _)
LogLines(shapes, k) ==
  IF k > Len(shapes) THEN <<>>
  ELSE CommitLines(k, shapes[k]) \o LogLines(shapes, k + 1)

Shapes == [title : Titles, body : BOOLEAN, trailers : BOOLEAN]

InitParse ==
  /\ Parked
  /\ plan = NotCalled
  /\ msg = NotCalled
  /\ refresh = NotCalled
  /\ rollup = NotCalled
  /\ review = NotCalled
  /\ cleanup = NotCalled
  /\ \/ \E len \in 1..MaxCommits :
          \E shapes \in [1..len -> Shapes] :
            \E lead \in BOOLEAN :
              parse = [pc |-> "call", shapes |-> shapes, lead |-> lead,
                       logs |-> Join((IF lead THEN <<<<>>>> ELSE <<>>)
                                     \o LogLines(shapes, 1)),
                       panic |-> FALSE, out |-> <<>>, stacked |-> <<>>]
     \/ \E text \in BlankTexts :
          parse = [pc |-> "call", shapes |-> <<>>, lead |-> FALSE,
                   logs |-> text,
                   panic |-> FALSE, out |-> <<>>, stacked |-> <<>>]

\* git.go:144-155: getStackedCommits parses the log and reverts the list; a
\* panic of parseLogs ends the program
GetStackedCommits ==
  /\ parse.pc = "call"
  /\ LET r == parseLogs(parse.logs)
     IN parse' = [parse EXCEPT !.pc = IF r.panic THEN "panic" ELSE "parsed",
                               !.panic = r.panic,
                               !.out = r.out,
                               !.stacked = revert(r.out)]
  /\ UNCHANGED <<vars, refresh, rollup, review, cleanup, plan, msg>>

NextParse == GetStackedCommits

SpecParse == InitParse /\ [][NextParse]_<<vars, fvars>>

\* ---- landStack and main: from the stack to the plan ----

\* the hash of the j-th commit `git log` lists
LogHash(j) == "c" \o ToString(j)

\* what `git log trunk..HEAD` can list, newest first: every commit is mine
\* or of another author (main.go:430-432) and carries a Remote-Ref trailer
\* or none yet
LoggedCommits(len) ==
  { [j \in 1..len |-> [Hash |-> LogHash(j), Mine |-> f[j].Mine, Ref |-> f[j].Ref,
                       PRNumber |-> 0, Skip |-> FALSE]] :
      f \in [1..len -> [Mine : BOOLEAN, Ref : {"", "u/a", "u/b"}]] }

InitPlan ==
  /\ Parked
  /\ refresh = NotCalled
  /\ rollup = NotCalled
  /\ review = NotCalled
  /\ cleanup = NotCalled
  /\ parse = NotCalled
  /\ msg = NotCalled
  /\ \E len \in 0..MaxCommits :
       \E log \in LoggedCommits(len), include \in BOOLEAN, flow \in {"land", "push"} :
         plan = [pc |-> "getStack", flow |-> flow, includeOtherAuthors |-> include,
                 log |-> log, commits |-> <<>>, k |-> 0, prs |-> <<>>,
                 pushed |-> {}, result |-> ""]

PlanReturn(res) == [plan EXCEPT !.pc = "returned", !.result = res]

\* land.go:88-96 and main.go:50-54 with getStackedCommits (git.go:144-155):
\* the commits of the log, oldest first; both flows end on an empty stack
PlanGetStack ==
  /\ plan.pc = "getStack"
  /\ \E ok \in BOOLEAN :
       plan' = IF ~ok THEN PlanReturn("panic")
               ELSE IF Len(plan.log) = 0 THEN PlanReturn("nothing")
               ELSE [plan EXCEPT !.commits = revert(plan.log),
                                 !.pc = IF plan.flow = "land" THEN "preflight" ELSE "validate"]
  /\ UNCHANGED <<vars, refresh, rollup, review, cleanup, parse, msg>>

\* land.go:99-106: checkAndConfirmLocalChanges lets the run go on or ends it
PlanPreflight ==
  /\ plan.pc = "preflight"
  /\ \E go \in BOOLEAN :
       plan' = IF go THEN [plan EXCEPT !.pc = "build", !.k = 1]
               ELSE PlanReturn("cancelled")
  /\ UNCHANGED <<vars, refresh, rollup, review, cleanup, parse, msg>>

\* land.go:115
NoPRFound_Never(number) == FALSE

NoPRFound(number) == number = 0

\* land.go:126-134
PlanEntry(c, number) ==
  [Number |-> number, HeadSHA |-> c.Hash, HeadBranch |-> c.Ref, BaseBranch |-> "trunk"]

\* land.go:110-135: one turn of the loop that builds the plan.  found is what
\* the search by title answers (github.go:182-194; 0 for nothing found or a
\* failed search), getOK whether the PR could be read.
PlanCommit ==
  /\ plan.pc = "build"
  /\ LET c == plan.commits[plan.k] IN
       \E found \in 0..MaxPRs, getOK \in BOOLEAN :
         LET number == IF c.PRNumber = 0 THEN found ELSE c.PRNumber IN
           plan' = IF NoPRFound(number) THEN PlanReturn("no PR found")
                   ELSE IF ~getOK
                     THEN [PlanReturn("panic") EXCEPT !.commits[plan.k].PRNumber = number]
                   ELSE [plan EXCEPT
                           !.commits[plan.k].PRNumber = number,
                           !.prs = Append(@, PlanEntry(c, number)),
                           !.k = @ + 1,
                           !.pc = IF plan.k = Len(plan.commits) THEN "built" ELSE "build"]
  /\ UNCHANGED <<vars, refresh, rollup, review, cleanup, parse, msg>>

\* main.go:66-77: a remote-ref that two commits of the stack carry
HasDuplicateRef(commits) ==
  \E a, b \in 1..Len(commits) :
    a < b /\ commits[a].Ref # "" /\ commits[a].Ref = commits[b].Ref

\* main.go:66-77: the push flow exits on a duplicated remote-ref
PushValidate ==
  /\ plan.pc = "validate"
  /\ plan' = IF HasDuplicateRef(plan.commits)
               THEN PlanReturn("duplicated remote ref")
               ELSE [plan EXCEPT !.pc = "push"]
  /\ UNCHANGED <<vars, refresh, rollup, review, cleanup, parse, msg>>

\* main.go:141
shouldPush(c, include) == c.Mine \/ include

\* main.go:79-154: a commit without remote-ref gets one made of the user
\* and its short hash; the commits of other authors are marked Skip unless
\* they are included, and every other commit is pushed to its remote-ref
PushCommits ==
  /\ plan.pc = "push"
  /\ LET filled == [k \in 1..Len(plan.commits) |->
                      [plan.commits[k] EXCEPT
                         !.Ref = IF @ = "" THEN "u/" \o plan.commits[k].Hash ELSE @,
                         !.Skip = ~shouldPush(plan.commits[k], plan.includeOtherAuthors)]]
     IN plan' = [plan EXCEPT
          !.commits = filled,
          !.pushed = {filled[k].Ref : k \in {j \in 1..Len(filled) : ~filled[j].Skip}},
          !.pc = "pushed"]
  /\ UNCHANGED <<vars, refresh, rollup, review, cleanup, parse, msg>>

NextPlan == PlanGetStack \/ PlanPreflight \/ PlanCommit \/ PushValidate \/ PushCommits

SpecPlan == InitPlan /\ [][NextPlan]_<<vars, fvars>>

\* ---- Commit: SetAttr, GetAttr, FullMessage, and the message read back ----

\* main.go:20-21
KeyTags == <<"t", "a", "g", "s">>
KeyRemoteRef == <<"r", "e", "m", "o", "t", "e", "-", "r", "e", "f">>

\* the order of the bytes that occur in keys
ByteOrder == <<"-">> \o <<"0", "1", "2", "3", "4", "5", "6", "7", "8", "9">>
             \o UpperCase \o LowerCase
ByteOf(c) == CHOOSE j \in 1..Len(ByteOrder) : ByteOrder[j] = c

\* the < of Go on two strings
RECURSIVE StringLess(_, _)
StringLess(a, b) ==
  IF b = <<>> THEN FALSE
  ELSE IF a = <<>> THEN TRUE
  ELSE IF Head(a) # Head(b) THEN ByteOf(Head(a)) < ByteOf(Head(b))
  ELSE StringLess(Tail(a), Tail(b))

\* types.go:91
KeyLess(a, b) == StringLess(a.key, b.key)

\* types.go:98-106: remote-ref goes last
MessageLess(a, b) ==
  IF a.key = KeyRemoteRef THEN FALSE
  ELSE IF b.key = KeyRemoteRef THEN TRUE
  ELSE StringLess(a.key, b.key)

\* the less function of the call: of FullMessage or of SetAttr
SliceLess(a, b, message) == IF message THEN MessageLess(a, b) ELSE KeyLess(a, b)

\* sort.Slice on a slice of fewer than 12 elements is an insertion sort: the
\* element x goes before the first element it is less than, from the back
RECURSIVE InsertSorted(_, _, _)
InsertSorted(sorted, x, message) ==
  IF sorted = <<>> THEN <<x>>
  ELSE LET last == sorted[Len(sorted)] IN
       IF SliceLess(x, last, message)
         THEN InsertSorted(SubSeq(sorted, 1, Len(sorted) - 1), x, message) \o <<last>>
         ELSE sorted \o <<x>>

RECURSIVE SortSlice(_, _, _)
SortSlice(attrs, k, message) ==
  IF k = 0 THEN <<>>
  ELSE InsertSorted(SortSlice(attrs, k - 1, message), attrs[k], message)

\* types.go:51-58
GetAttr(attrs, key) ==
  LET at == {j \in 1..Len(attrs) : attrs[j].key = key}
  IN IF at = {} THEN <<>> ELSE attrs[SetMin(at)].val

\* types.go:82: the test that finds the trailer to overwrite
SameKey_FoldCase(a, b) == ToLower(a) = ToLower(b)

SameKey(a, b) == a = b

\* types.go:80-93
SetAttr(attrs, key, value) ==
  LET at == {j \in 1..Len(attrs) : SameKey(attrs[j].key, key)}
  IN IF at # {}
       THEN [attrs EXCEPT ![SetMin(at)].val = value]
       ELSE LET added == Append(attrs, [key |-> key, val |-> value])
            IN SortSlice(added, Len(added), FALSE)

\* strings.ToUpper of one byte
ToUpper(c) ==
  IF \E j \in 1..Len(LowerCase) : LowerCase[j] = c
  THEN UpperCase[CHOOSE j \in 1..Len(LowerCase) : LowerCase[j] = c]
  ELSE c

\* utils.go:78-93: lower case, and the first letter of every word between
\* the dashes in upper case
formatKey(key) ==
  LET low == ToLower(key)
  IN [k \in 1..Len(low) |->
        IF k = 1 \/ low[k - 1] = "-" THEN ToUpper(low[k]) ELSE low[k]]

\* utils.go:95-102
maxAttrsLength(attrs) ==
  IF attrs = <<>> THEN 0 ELSE SetMax({Len(attrs[j].key) : j \in 1..Len(attrs)})

\* the verb % <width>v of fmt on a string: blanks in front, up to the width
PadLeft(t, width) ==
  [k \in 1..(IF width > Len(t) THEN width - Len(t) ELSE 0) |-> " "] \o t

\* types.go:107-111: the trailer lines from position k on
RECURSIVE AttrLines(_, _, _)
AttrLines(attrs, k, width) ==
  IF k > Len(attrs) THEN <<>>
  ELSE PadLeft(formatKey(attrs[k].key), width) \o <<":", " ">> \o attrs[k].val
       \o <<"\n">> \o AttrLines(attrs, k + 1, width)

\* types.go:95-116: the text, and the trailers as the call leaves them
FullMessage(c) ==
  LET sorted == SortSlice(c.Attrs, Len(c.Attrs), TRUE)
  IN [Attrs |-> sorted,
      text |-> TrimSpace(c.Title \o <<"\n", "\n">> \o c.Message \o <<"\n", "\n">>
                         \o AttrLines(sorted, 1, maxAttrsLength(sorted)))]

\* what `git log` prints for a commit with this message: the header, and
\* every line of the message behind four blanks; a line without text is
\* printed as blank
GitLog(text, blank) ==
  LET lines == Split(text, 1)
  IN Join(<<CommitWord \o HashOf(1), AuthorLine, DateLine, <<>>>>
          \o [k \in 1..Len(lines) |->
                IF lines[k] = <<>> THEN blank ELSE Indent \o lines[k]]
          \o <<<<>>>>)

\* the most SetAttr calls on one commit
MaxSets == 2

\* the most trailer lines of a commit that is read from the log
MaxTrailers == 2

SetKeys == {KeyRemoteRef, KeyTags, <<"T", "a", "g", "s">>}
SetValues == {<<"v">>, <<"w">>}

\* the trailer lines of the commits that are read from the log
MsgTrailers ==
  { <<" ", " ", " ", " ", "R", "e", "m", "o", "t", "e", "-", "R", "e", "f", ":", " ", "u", "/", "a">>,
    <<" ", " ", " ", " ", "T", "a", "g", "s", ":", " ", "x">>,
    <<" ", " ", " ", " ", "t", "a", "g", "s", ":", " ", "y">> }

InitMsg ==
  /\ Parked
  /\ refresh = NotCalled
  /\ rollup = NotCalled
  /\ review = NotCalled
  /\ cleanup = NotCalled
  /\ parse = NotCalled
  /\ plan = NotCalled
  /\ \E len \in 0..MaxTrailers :
       \E trailers \in [1..len -> MsgTrailers], body \in BOOLEAN :
         msg = [pc |-> "log",
                logs |-> Join(<<CommitWord \o HashOf(1), AuthorLine, DateLine, <<>>,
                                Indent \o <<"f", "i", "x", " ", "t", "h", "e", " ", "p", "a", "r", "s", "e", "r">>>>
                              \o (IF body THEN <<<<>>>> \o BodyLines ELSE <<>>)
                              \o (IF len > 0 THEN <<<<>>>> \o trailers ELSE <<>>)
                              \o <<<<>>>>),
                Title |-> <<>>, Message |-> <<>>, Attrs |-> <<>>,
                sets |-> 0, last |-> [key |-> <<>>, val |-> <<>>],
                text |-> <<>>, back |-> NoCommit, panic |-> FALSE]

\* git.go:144-155 with parseLogsCommit (74-129): the commit read from the log
MsgParse ==
  /\ msg.pc = "log"
  /\ LET r == parseLogs(msg.logs)
     IN msg' = IF r.panic THEN [msg EXCEPT !.pc = "panic", !.panic = TRUE]
               ELSE [msg EXCEPT !.pc = "commit",
                                !.Title = r.out[1].Title,
                                !.Message = r.out[1].Message,
                                !.Attrs = r.out[1].Attrs]
  /\ UNCHANGED <<vars, refresh, rollup, review, cleanup, parse, plan>>

\* types.go:80-93: one call of SetAttr
MsgSetAttr ==
  /\ msg.pc = "commit"
  /\ msg.sets < MaxSets
  /\ \E key \in SetKeys, value \in SetValues :
       msg' = [msg EXCEPT !.Attrs = SetAttr(@, key, value),
                          !.sets = @ + 1,
                          !.last = [key |-> key, val |-> value]]
  /\ UNCHANGED <<vars, refresh, rollup, review, cleanup, parse, plan>>

\* types.go:95-116: the message is written
MsgWrite ==
  /\ msg.pc = "commit"
  /\ LET r == FullMessage(msg)
     IN msg' = [msg EXCEPT !.pc = "written", !.Attrs = r.Attrs, !.text = r.text]
  /\ UNCHANGED <<vars, refresh, rollup, review, cleanup, parse, plan>>

\* git.go:144-155: the commit with the written message is read from the log
MsgReadBack ==
  /\ msg.pc = "written"
  /\ \E blank \in {<<>>, Indent} :
       LET r == parseLogs(GitLog(msg.text, blank))
       IN msg' = IF r.panic THEN [msg EXCEPT !.pc = "panic", !.panic = TRUE]
                 ELSE [msg EXCEPT !.pc = "read", !.back = r.out[1]]
  /\ UNCHANGED <<vars, refresh, rollup, review, cleanup, parse, plan>>

NextMsg == MsgParse \/ MsgSetAttr \/ MsgWrite \/ MsgReadBack

SpecMsg == InitMsg /\ [][NextMsg]_<<vars, fvars>>

\* ---- properties of the landing run ----

\* the merge requests issued so far for PR k
MergeReqsOf(k) == SelectSeq(muts, LAMBDA m : m.op = "merge" /\ m.pr = k)

\* the positions of the merge requests in the record
MergeIdx == {e \in 1..Len(muts) : muts[e].op = "merge"}

\* C1: in the unattended and in the dashboard path, a merge request for plan
\* entry j is issued only after every earlier entry was merged successfully
\* in this run or was MERGED in the snapshot; no request goes back to an
\* earlier entry, and no entry gets a request after its merge succeeded.
C1_MergeInPlanOrder ==
  /\ \A e \in MergeIdx : \A k \in 1..(muts[e].pr - 1) :
       \/ \E d \in 1..(e - 1) : muts[d].op = "merge" /\ muts[d].pr = k /\ muts[d].ok
       \/ AlreadyMerged(prs[k])
  /\ \A d, e \in MergeIdx : d < e =>
       /\ muts[d].pr <= muts[e].pr
       /\ muts[d].pr = muts[e].pr => ~muts[d].ok

\* a run that merged the first entry and then requested the merge of the second
C1_Witness ==
  \E d, e \in MergeIdx :
    d < e /\ muts[d].pr = 1 /\ muts[d].ok /\ muts[e].pr = 2

\* C2: a PR whose live mergeStateStatus is CONFLICTING when its turn comes
\* gets no merge request, and the run does not go past its conflict gate:
\* it ends there with the conflict error naming the PR's URL, in both paths.
C2_ConflictingAborts ==
  turnLive = "CONFLICTING" =>
    /\ MergeReqsOf(i) = <<>>
    /\ \/ pc = "dashGate"
       \/ pc = "done" /\ result = "conflict" /\ errURL = i

\* C3: with the dry-run flag set, no push, merge request, base update or
\* branch deletion is ever requested.
C3_DryRunNoMutation ==
  cfg.dryRun => (muts = <<>> /\ pushes = {})

\* C4: every base update follows a confirmed merge of the PR before it: a
\* successful request without --auto, or a successful request with --auto
\* and a waitForMerge poll that saw MERGED; a run that waitForMerge ended
\* (CLOSED, failed poll, timeout) has issued neither the base update of the
\* next PR nor the deletion of the current PR's branch.
C4_BaseAfterConfirmedMerge ==
  /\ \A e \in 1..Len(muts) : muts[e].op = "base" =>
       /\ muts[e].after \in {"immediate", "polled"}
       /\ \E d \in 1..(e - 1) :
            /\ muts[d].op = "merge" /\ muts[d].pr = muts[e].pr - 1 /\ muts[d].ok
            /\ muts[d].auto <=> (muts[e].after = "polled")
  /\ result \in {"merge_closed", "merge_poll_failed", "merge_timeout"} =>
       \A e \in 1..Len(muts) :
         /\ ~(muts[e].op = "base" /\ muts[e].pr = i + 1)
         /\ ~(muts[e].op = "delete" /\ muts[e].pr = i)

\* a base update issued after a poll of waitForMerge saw MERGED
C4_Witness ==
  \E e \in 1..Len(muts) : muts[e].op = "base" /\ muts[e].after = "polled"

\* C5: a PR gets at most two merge requests; a second one only after a first
\* one was rejected, and then without --auto and with the same head SHA
\* guard.  After the rejection naming enablePullRequestAutoMerge the
\* retry is the next step; if it succeeds the run goes on as after a merge
\* (the wait for the merge, then the base update), if it fails the run ends
\* with the merge error, as it does when a first request fails otherwise.
C5_FallbackOnce ==
  /\ \A k \in 1..n :
       LET reqs == MergeReqsOf(k) IN
         /\ Len(reqs) <= 2
         /\ Len(reqs) = 2 =>
              /\ ~reqs[1].ok
              /\ ~reqs[2].auto /\ reqs[2].sha = reqs[1].sha
  /\ fellBack =>
       LET reqs == MergeReqsOf(i) IN
         \/ Len(reqs) = 1 /\ (pc = "mergeRetry" \/ (pc = "done" /\ result = "panic"))
         \/ /\ Len(reqs) = 2 /\ reqs[2].ok
            /\ \/ pc \in {"waitForMerge", "updateBase"}
               \/ pc = "done" /\ result \in {"merge_poll_failed", "merge_timeout"}
         \/ Len(reqs) = 2 /\ ~reqs[2].ok /\ pc = "done" /\ result = "merge_failed"
  /\ (~fellBack /\ Len(MergeReqsOf(i)) = 1 /\ ~MergeReqsOf(i)[1].ok) =>
       (pc = "done" /\ result = "merge_failed")

\* a run in which the retry without --auto succeeded and the wait is over
C5_Witness ==
  fellBack /\ pc = "updateBase" /\ Len(MergeReqsOf(i)) = 2

\* C6: once a base update left a PR conflicting, no merge request is issued
\* for that PR until the remaining PRs were rebased and pushed, in either
\* path.
C6_RebaseBeforeNextMerge ==
  conflicted # 0 => MergeReqsOf(conflicted) = <<>>

\* the merge and base-update requests of the record, in order
CoreMuts == SelectSeq(muts, LAMBDA m : m.op # "delete")

\* C7: an unattended run over N PRs without dry run, without required
\* checks, with auto mode off, in which every call succeeded and every
\* mergeability query said CLEAN or MERGEABLE, ends successfully, reports N
\* landed PRs, and has requested merge 1, base of 2, merge 2, ..., merge N,
\* every merge once and without --auto.
C7_HappyPath ==
  ( /\ pc = "done" /\ envOK /\ n >= 1
    /\ ~cfg.interactive /\ ~cfg.dryRun /\ ~cfg.requireChecks /\ ~startAuto ) =>
    /\ result = "ok"
    /\ landedCount = n
    /\ Len(CoreMuts) = 2 * n - 1
    /\ \A k \in 1..n :
         /\ CoreMuts[2 * k - 1].op = "merge" /\ CoreMuts[2 * k - 1].pr = k
         /\ CoreMuts[2 * k - 1].ok /\ ~CoreMuts[2 * k - 1].auto
    /\ \A k \in 1..(n - 1) :
         CoreMuts[2 * k].op = "base" /\ CoreMuts[2 * k].pr = k + 1

\* such a run over the longest stack explored
C7_Witness ==
  /\ pc = "done" /\ envOK /\ n = MaxPRs /\ result = "ok"
  /\ ~cfg.interactive /\ ~cfg.dryRun /\ ~cfg.requireChecks /\ ~startAuto

\* C8: a deletion that failed because the branch is gone from the remote is
\* reported as a success, and the run goes on to the pull, in both paths.
C8_GoneBranchIsSuccess ==
  report.outcome = "remote ref does not exist" =>
    (report.says = "already deleted" /\ pc = "pull")

\* C9: when git status reports uncommitted changes, landStack has ended with
\* the error after the status check alone: the stack was not read, no forge
\* query, prompt, push or mutation was made.
C9_DirtyFailsFast ==
  dirty =>
    /\ pc = "done" /\ result = "dirty"
    /\ calls = {"git status"}
    /\ n = 0 /\ muts = <<>> /\ pushes = {}

\* a run that found the working tree dirty
C9_Witness ==
  dirty /\ result = "dirty"

\* C10: with required checks, the run reaches the merge request only after
\* a poll in which every required check passed or after the forge said that
\* no required checks are configured; a poll showing a failed required check
\* ends the run without a merge request for the PR.
C10_MergeOnlyAfterChecks ==
  /\ (cfg.requireChecks /\ pc \in {"merge", "mergeRetry"}) =>
       gate \in {"all passed", "no required checks"}
  /\ gate = "failed" => (pc = "done" /\ MergeReqsOf(i) = <<>>)

\* C11: in the unattended path a first query answering UNKNOWN starts the
\* retries; each retry is made only while the status is UNKNOWN and fewer
\* than 3 retries were made; a retry answering UNKNOWN is followed by another
\* retry unless it was the third, after which the run goes on to the checks
\* or the merge; a retry answering another status ends the retries at once:
\* CONFLICTING ends the run with the conflict error and no merge request, any
\* other status lets the run go on; a retry whose query fails ends the run.
C11_UnknownRetries ==
  [][ /\ (pc = "checkMergeability" /\ pc' = "retryUnknown") =>
           (mergeStatus' = "UNKNOWN" /\ retry' = 0)
      /\ pc = "retryUnknown" =>
           /\ retry < 3 /\ mergeStatus = "UNKNOWN" /\ ~cfg.interactive
           /\ muts' = muts
           /\ \/ /\ pc' = "retryUnknown" /\ mergeStatus' = "UNKNOWN"
                 /\ retry' = retry + 1 /\ retry' < 3
              \/ pc' = "done" /\ result' = "mergeability_failed"
              \/ pc' = "done" /\ result' = "conflict" /\ mergeStatus' = "CONFLICTING"
              \/ /\ pc' \in {"waitForChecks", "detect"}
                 /\ mergeStatus' # "CONFLICTING"
                 /\ mergeStatus' = "UNKNOWN" => retry = 2 ]_vars

\* a run that went on to the next step with the status still UNKNOWN
C11_Witness ==
  ~cfg.interactive /\ mergeStatus = "UNKNOWN" /\ pc \in {"waitForChecks", "detect"}

\* C12: a base update that failed with an error mentioning "closed" ends
\* the run with the closed-PR error; one that failed otherwise is a warning:
\* the run goes on with the deletion, the pull, the local rebase and the
\* next iteration, and ends early only if one of those steps fails; after a
\* base update of PR k+1, no merge request for PR k or an earlier PR follows.
C12_BaseUpdateFailure ==
  /\ report.base = "closed" => (pc = "done" /\ result = "next_closed")
  /\ result = "next_closed" => report.base = "closed"
  /\ report.base = "other" =>
       \/ pc \in {"delete", "pull", "localRebase", "loop", "dashLoop"}
       \/ pc = "done" /\ result \in {"panic", "local_rebase_failed"}
  /\ \A e \in 1..Len(muts) : muts[e].op = "base" =>
       \A d \in (e + 1)..Len(muts) :
         ~(muts[d].op = "merge" /\ muts[d].pr < muts[e].pr)

\* a run that went on to the next iteration after a base update that failed
\* with another error
C12_Witness ==
  report.base = "other" /\ pc \in {"loop", "dashLoop"}

\* C17: whenever the dashboard was rendered with every PR of the plan in
\* state MERGED, the next step of the loop is the successful return with
\* the count of the plan; no answer of the operator is read and no merge
\* request is issued; the prompt is reached only otherwise.
C17_AllMergedReturns ==
  [][ /\ (pc = "dashShow" /\ \A k \in 1..n : prs[k].State = "MERGED") =>
           /\ pc' = "done" /\ result' = "ok" /\ landedCount' = n
           /\ action' = action
           /\ muts' = muts /\ pushes' = pushes
      /\ pc' = "dashPrompt" => \E k \in 1..n : prs'[k].State # "MERGED"
    ]_vars

\* the PRs were merged out of band: the operator only chose refresh, no
\* merge was requested, and the loop returned success
C17_Witness ==
  /\ pc = "done" /\ result = "ok" /\ action = "r"
  /\ muts = <<>>
  /\ n = MaxPRs /\ \A k \in 1..n : prs[k].State = "MERGED"

\* C18: at the prompt of the dashboard, quit returns the cancellation error,
\* refresh only runs the status fetch and shows the dashboard again, and an
\* answer that is none of land, refresh and quit shows the dashboard again
\* with the plan and its snapshot as they were; none of the three issues a
\* merge request, a push, a base update or a branch deletion.
C18_PromptActions ==
  [][ (pc = "dashPrompt" /\ action' # "y") =>
        /\ muts' = muts /\ pushes' = pushes
        /\ n' = n /\ i' = i /\ cur' = cur
        /\ action' = "q" =>
             pc' = "done" /\ result' = "cancelled" /\ prs' = prs
        /\ action' = "r" =>
             /\ pc' = "dashShow" /\ result' = result
             /\ prs' \in updateAllPRStatus(prs)
        /\ action' = "other" =>
             pc' = "dashShow" /\ result' = result /\ prs' = prs
    ]_vars

\* the operator quit at the prompt of a dashboard that showed fetched
\* statuses
C18_Witness ==
  /\ pc = "done" /\ result = "cancelled" /\ action = "q"
  /\ muts = <<>> /\ pushes = {}
  /\ \E k \in 1..n : prs[k] # EmptyEntry

\* ---- properties of updateAllPRStatus ----

\* C13: the first query of updateAllPRStatus is the batched one and there
\* is only one; per-entry queries follow only a failed batched query, one
\* for each entry in plan order whatever the earlier ones answered; an entry
\* whose own query failed holds what it held before the call; the call
\* always returns, with a snapshot the dashboard may show.
C13_BatchThenFallback ==
  LET q == refresh.queries
      len == Len(refresh.prs) IN
  /\ refresh.pc \in {"batch", "fallback", "returned"}
  /\ refresh.pc = "batch" <=> q = <<>>
  /\ q # <<>> =>
       /\ q[1].kind = "batch"
       /\ \A j \in 2..Len(q) : q[j].kind = "one" /\ q[j].pr = j - 1
       /\ Len(q) > 1 => ~q[1].ok
       /\ Len(q) <= len + 1
  /\ refresh.pc = "fallback" => ~q[1].ok /\ Len(q) = refresh.i
  /\ refresh.pc = "returned" =>
       /\ ~q[1].ok => Len(q) = len + 1
       /\ refresh.prs \in updateAllPRStatus(refresh.old)
  /\ \A j \in 2..Len(q) : ~q[j].ok => refresh.prs[j - 1] = refresh.old[j - 1]

\* the batched query failed, the query of the first entry failed and left it
\* stale, and the second entry was refreshed all the same
C13_Witness ==
  /\ refresh.pc = "returned"
  /\ Len(refresh.queries) = 3
  /\ ~refresh.queries[2].ok /\ refresh.queries[3].ok
  /\ refresh.prs[1] = refresh.old[1] /\ refresh.prs[1] # EmptyEntry
  /\ refresh.prs[2] # refresh.old[2]

\* ---- properties of updatePRStatusBatch ----

\* the buckets of the stored checks
StoredBuckets == {rollup.Checks[j].Bucket : j \in 1..Len(rollup.Checks)}

\* C14: after the batched refresh of a PR the aggregate check status is
\* FAILING if a stored check is in bucket fail, else PENDING if one is in
\* bucket pending, else PASSING if one is in bucket pass, else NONE; the
\* empty list of raw checks gives NONE.
C14_AggregateStatus ==
  rollup.pc = "stored" =>
    /\ rollup.ChecksStatus =
         IF "fail" \in StoredBuckets THEN "FAILING"
         ELSE IF "pending" \in StoredBuckets THEN "PENDING"
         ELSE IF "pass" \in StoredBuckets THEN "PASSING"
         ELSE "NONE"
    /\ rollup.Nodes = <<>> => rollup.ChecksStatus = "NONE"

\* a failed and a pending check together: the aggregate is FAILING
C14_Witness ==
  /\ rollup.pc = "stored"
  /\ {"fail", "pending"} \subseteq StoredBuckets
  /\ rollup.ChecksStatus = "FAILING"

\* C15: every raw check node of a batched refresh is stored with one of the
\* buckets pass, fail and pending, the one its type's rule gives, and is
\* counted once in the counter of that bucket.
C15_EveryNodeBucketed ==
  rollup.pc = "stored" =>
    /\ Len(rollup.Checks) = Len(rollup.Nodes)
    /\ \A j \in 1..Len(rollup.Nodes) :
         /\ rollup.Checks[j].Bucket \in {"pass", "fail", "pending"}
         /\ rollup.Nodes[j].TypeName = "CheckRun" =>
              rollup.Checks[j].Bucket = CheckRunBucket(rollup.Nodes[j])
         /\ rollup.Nodes[j].TypeName = "StatusContext" =>
              rollup.Checks[j].Bucket = StatusContextBucket(rollup.Nodes[j])
    /\ rollup.passing + rollup.failing + rollup.pending = Len(rollup.Nodes)

\* the number of reviews of the response in state st
ReviewsIn(st) ==
  Cardinality({j \in 1..Len(review.Reviews) : review.Reviews[j] = st})

\* C16: the review summary of a batched refresh is "N changes requested"
\* when N > 0 reviews request changes, whatever the approvals; else
\* "N approved" when N > 0 reviews approve; else "Review required" when the
\* decision is REVIEW_REQUIRED; else "N comments" when N > 0 reviews are
\* comments; else empty.
C16_ReviewSummary ==
  review.pc = "stored" =>
    review.ReviewStatus.text =
      IF ReviewsIn("CHANGES_REQUESTED") > 0
        THEN ToString(ReviewsIn("CHANGES_REQUESTED")) \o " changes requested"
      ELSE IF ReviewsIn("APPROVED") > 0
        THEN ToString(ReviewsIn("APPROVED")) \o " approved"
      ELSE IF review.ReviewDecision = "REVIEW_REQUIRED" THEN "Review required"
      ELSE IF ReviewsIn("COMMENTED") > 0
        THEN ToString(ReviewsIn("COMMENTED")) \o " comments"
      ELSE ""

\* one approval and one request for changes: the summary counts the request
C16_Witness ==
  /\ review.pc = "stored"
  /\ ReviewsIn("APPROVED") = 1 /\ ReviewsIn("CHANGES_REQUESTED") = 1
  /\ review.ReviewStatus.text = "1 changes requested"

\* ---- properties of cleanupPRBodyForMerge ----

\* C19: cleaning the result of cleanupPRBodyForMerge again gives the same
\* result, for every body.
C19_Idempotent ==
  cleanup.pc = "twice" => cleanup.again = cleanup.out

\* s holds text between HTML comment delimiters
HasHtmlComment(s) ==
  \E p \in 1..Len(s) : \E q \in (p + 4)..Len(s) :
    StartsAt(s, p, CommentOpen) /\ StartsAt(s, q, CommentClose)

\* the lines of s that are not blank, each without the white space around it
NonBlankLines(s) ==
  LET lines == Split(s, 1)
      trimmed == [k \in 1..Len(lines) |-> TrimSpace(lines[k])]
  IN SelectSeq(trimmed, LAMBDA l : l # <<>>)

IsSuffix(a, b) ==
  Len(a) <= Len(b) /\ SubSeq(b, Len(b) - Len(a) + 1, Len(b)) = a

\* C20: the result of cleanupPRBodyForMerge holds no text between HTML
\* comment delimiters; when a "---" line of the body has a blank line before
\* it and a PR reference line somewhere after it, the result is what is left
\* of the body before the blank lines in front of the first such line; a
\* "---" line of a body without such a line stays in the result with the
\* text after it. The last two are stated for bodies without comment
\* syntax, and up to the rule that a body of headings only is cleaned to
\* the empty body.
C20_CommentsAndFooterRemoved ==
  cleanup.pc = "cleaned" =>
    LET body == cleanup.body
        out == cleanup.out
        lines == Split(body, 1)
        plain == \A k \in 1..Len(body) : body[k] \notin {"<", "["}
        seps == {k \in 1..Len(lines) : TrimSpace(lines[k]) = <<"-", "-", "-">>}
        footers == {k \in seps : hasPrecedingEmptyLine(lines, k)
                                   /\ hasStackInfoAfter(lines, k)}
        kept == Join(SubSeq(lines, 1,
                  findFirstEmptyLineBefore(lines, SetMin(footers))))
    IN /\ ~HasHtmlComment(out)
       /\ (plain /\ footers # {}) =>
            IF isEmptyBody(kept) THEN out = <<>>
            ELSE NonBlankLines(out) = NonBlankLines(kept)
       /\ (plain /\ footers = {} /\ ~isEmptyBody(body)) =>
            \A k \in seps :
              IsSuffix(NonBlankLines(Join(SubSeq(lines, k, Len(lines)))),
                       NonBlankLines(out))


TitleOnly(shape) == ~shape.body /\ ~shape.trailers

\* C22: for every commit whose message consists only of a title line,
\* including a title of the form 'word: text', parseLogs returns a commit
\* with that title, an empty message and no trailers
C22_TitleOnly ==
  parse.pc # "call" /\ ~parse.lead =>
    \A k \in 1..Len(parse.shapes) :
      TitleOnly(parse.shapes[k]) =>
        /\ ~parse.panic
        /\ k <= Len(parse.out)
        /\ parse.out[k].Title = parse.shapes[k].title
        /\ parse.out[k].Message = <<>>
        /\ parse.out[k].Attrs = <<>>

\* C23: parseLogs returns exactly one commit per 'commit <hash>' header of
\* the log, in the order of the log, also for a log that starts with a blank
\* line, and no commit and no error for a text of white space only;
\* getStackedCommits returns the commits in reversed order.  Stated for the
\* logs in which no title-only commit has a title of the form 'word: text'.
C23_OnePerHeader ==
  parse.pc # "call" =>
    IF TrimSpace(parse.logs) = <<>>
    THEN ~parse.panic /\ parse.out = <<>>
    ELSE (\A k \in 1..Len(parse.shapes) :
            TitleOnly(parse.shapes[k]) =>
              ~regexpKeyVal(Indent \o parse.shapes[k].title).ok)
         => /\ ~parse.panic
            /\ Len(parse.out) = Len(parse.shapes)
            /\ \A k \in 1..Len(parse.out) : parse.out[k].Hash = HashOf(k)
            /\ Len(parse.stacked) = Len(parse.out)
            /\ \A k \in 1..Len(parse.out) :
                 parse.stacked[k] = parse.out[Len(parse.out) - k + 1]

\* ---- properties of the landing run, continued ----

\* C24: in the unattended path, a PR whose mergeability status is BLOCKED,
\* UNSTABLE or BEHIND does not end the run, and the merge request then issued
\* for it carries --auto whatever cfg.autoMode is
C24_BlockedUsesAuto ==
  [][ /\ (~cfg.interactive /\ turnLive # "BLOCKED" /\ turnLive' = "BLOCKED")
           => pc' # "done"
      /\ (~cfg.interactive /\ pc = "merge" /\ turnLive = "BLOCKED"
          /\ Len(muts') > Len(muts))
           => muts'[Len(muts')].auto ]_<<vars, fvars>>

\* C25: when the head commit the forge reports for the PR whose turn it is
\* differs from the head SHA of the plan, the merge request carries the head
\* SHA the forge reported as its match-head-commit guard, in the unattended
\* and in the dashboard path
C25_GuardFollowsForgeHead ==
  [][ (pc = "merge" /\ headRefOid = "remote" /\ Len(muts') > Len(muts))
        => muts'[Len(muts')].sha = headRefOid ]_<<vars, fvars>>

\* C26: when an iteration of the landing loop starts after a PR was merged
\* and with PRs remaining, in the unattended and in the dashboard path, the
\* branch of every remaining PR was force-pushed in the local sync and the
\* working directory is on the branch of the newest remaining PR
C26_LocalSyncEveryTime ==
  (/\ pc \in {"loop", "dashLoop"} /\ 1 < i /\ i <= n
   /\ \E e \in 1..Len(muts) :
        muts[e].op = "merge" /\ muts[e].pr = i - 1 /\ muts[e].ok) =>
    /\ i..n \subseteq pushes
    /\ branch = HeadBranch(n)

\* C27: when a landing run has ended, no rebase is left in progress and the
\* working directory is on the branch the run was started on, on trunk, or
\* on the branch of the newest PR of the plan
C27_CoherentCheckout ==
  pc = "done" => ~rebasing /\ branch \in {"work", "trunk", HeadBranch(n)}

\* C28: in a dry run of the unattended path, when the turn of a PR of the
\* plan comes the run goes on to the mergeability query of that PR, so that
\* the read-only checks are made before the would-be merge is described
C28_DryRunStillChecks ==
  [][ (pc = "loop" /\ ~cfg.interactive /\ cfg.dryRun /\ i <= n)
        => (pc' = "checkMergeability" /\ i' = i) ]_<<vars, fvars>>

C30_SameProtocol ==
  [][ (pc = "merge" /\ Len(muts') > Len(muts)) => mergeStatus # ""
    ]_<<vars, fvars>>

\* ---- properties of the run configuration and of the plan ----

\* C31: outside the retry of the not-enabled fallback cfg.autoMode equals
\* the value it had when the run started: at the start of the processing of
\* every PR and where the run decides whether to wait for the merge; a run
\* started with auto mode off never has it on
C31_ConfigUnchanged ==
  pc # "mergeRetry" => cfg.autoMode = startAuto

\* github.go:168-172 with land.go:1451-1454: a PR other than the first is
\* created on the head branch of the PR below it, and its base on the forge
\* is trunk once a `gh pr edit --base` for it was accepted
BaseRepointed(k, e) ==
  \/ k = 1
  \/ \E d \in 1..(e - 1) : muts[d].op = "base" /\ muts[d].pr = k /\ muts[d].ok

\* C32: every merge request is for a PR whose base on the forge is trunk at
\* that time: a PR other than the first of the plan gets a merge request only
\* after a base update of it to trunk succeeded, also after a base update
\* that ended with the recoverable warning and after the PR before it was
\* skipped as already merged.
C32_MergeOnTrunkBase ==
  \A e \in MergeIdx : BaseRepointed(muts[e].pr, e)

\* C33: the head branch of a merged PR is deleted only after the base of the
\* next PR of the plan was successfully repointed to trunk, or when the plan
\* has no next PR.
C33_DeleteAfterRepoint ==
  \A e \in 1..Len(muts) :
    (muts[e].op = "delete" /\ muts[e].pr < n) => BaseRepointed(muts[e].pr + 1, e)

\* C34: a PR whose status on the forge, when its turn comes, is one that
\* checkPRConflicts reports as a conflict (CONFLICTING or DIRTY) is never
\* sent a merge request, in both paths.
C34_ConflictNeverMerged ==
  turnLive \in ConflictStates => MergeReqsOf(i) = <<>>

\* C35: for the same raw checks of a PR, with any conclusion, status or
\* state and also for the empty list, the per-PR refresh stores the
\* aggregate check status the batched refresh stored.
C35_SameClassification ==
  rollup.pc = "refreshed" => rollup.ChecksStatus = rollup.Batched

\* ---- properties of the plan's construction ----

\* the commit of the stack a plan entry was built from
CommitOf(entry) ==
  CHOOSE c \in {plan.commits[k] : k \in 1..Len(plan.commits)} : c.Hash = entry.HeadSHA

\* C36: when landStack is past the construction of the plan, the plan has
\* one entry per commit of the log, oldest first, each with a PR number
\* other than 0, the commit's hash as head SHA and trunk as base; a run that
\* found no PR for a commit has returned with a shorter plan.
C36_PlanMatchesStack ==
  /\ (plan.pc = "built") =>
       /\ Len(plan.prs) = Len(plan.log)
       /\ \A k \in 1..Len(plan.prs) :
            /\ plan.prs[k].HeadSHA = plan.log[Len(plan.log) - k + 1].Hash
            /\ plan.prs[k].Number # 0
            /\ plan.prs[k].BaseBranch = "trunk"
  /\ (plan.pc # "idle" /\ plan.result = "no PR found") =>
       /\ plan.pc = "returned"
       /\ Len(plan.prs) < Len(plan.log)

\* a plan of two entries with different PRs was built
C36_Witness ==
  /\ plan.pc = "built"
  /\ Len(plan.prs) = 2
  /\ plan.prs[1].Number # plan.prs[2].Number

\* C37: a commit of another author, while other authors are not included,
\* never gets an entry in the landing plan.
C37_SkippedNotPlanned ==
  plan.pc # "idle" =>
    \A k \in 1..Len(plan.prs) :
      shouldPush(CommitOf(plan.prs[k]), plan.includeOtherAuthors)

\* C38: neither flow goes on (to the plan, to the pushes) with a stack in
\* which two commits carry the same remote-ref.
C38_NoDuplicateRefProceeds ==
  plan.pc \in {"preflight", "build", "built", "push", "pushed"} =>
    ~HasDuplicateRef(plan.commits)

\* ---- properties of the trailers and of the message ----

\* C39: the trailers of a commit are unique per key when letter case is
\* ignored, after parsing and after any SetAttr calls, and GetAttr returns
\* the value of the latest SetAttr for every letter case of its key.
C39_TrailersUniquePerKey ==
  msg.pc \in {"commit", "written", "read"} =>
    /\ \A a, b \in 1..Len(msg.Attrs) :
         a < b => ToLower(msg.Attrs[a].key) # ToLower(msg.Attrs[b].key)
    /\ (msg.pc = "commit" /\ msg.sets > 0) =>
         \A key \in SetKeys :
           ToLower(key) = ToLower(msg.last.key) =>
             GetAttr(msg.Attrs, key) = msg.last.val

\* the trailers as a set of keys, in lower case, and values
TrailerSet(attrs) ==
  {[key |-> ToLower(attrs[j].key), val |-> attrs[j].val] : j \in 1..Len(attrs)}

\* C40: a commit with a title, a body and trailers with distinct keys, whose
\* message is written by FullMessage and read back from the log, comes back
\* with the same title, the same body and the same keys and values.
C40_MessageRoundTrip ==
  ( /\ msg.pc \in {"read", "panic"}
    /\ msg.text # <<>>
    /\ msg.Message # <<>>
    /\ \A a, b \in 1..Len(msg.Attrs) :
         a < b => ToLower(msg.Attrs[a].key) # ToLower(msg.Attrs[b].key) ) =>
    /\ msg.pc = "read"
    /\ msg.back.Title = msg.Title
    /\ msg.back.Message = msg.Message
    /\ TrailerSet(msg.back.Attrs) = TrailerSet(msg.Attrs)
====
